---- MODULE Spec2Model ----
(***************************************************************************)
(* Verification model of the resilient resource-access core of             *)
(* nest-template: the distributed lease lock (MutexLock over the managed   *)
(* Redis client) and the MySQL connection driver's retry protocol.         *)
(*                                                                         *)
(* Each subsystem has its own specification over the shared variables:     *)
(*   Spec          the lease lock (MutexLock + Redis proxy client)         *)
(*   SpecShutdown  the lease lock of a process that is torn down           *)
(*   SpecTtl       the pure TTL normalisation of the lock                  *)
(*   SpecDriver    MySQLDriver.retryOnConnectionError and its callers      *)
(***************************************************************************)
EXTENDS Integers, Sequences, FiniteSets, TLC

VARIABLES
    \* ---- lease lock ----
    cproc,      \* cproc[p]: the process (MutexLock instance) caller p runs in
    cache,      \* cache[c][k]: the entry of key k on cache server c
    up,         \* up[c]: cache server c is reachable
    rclient,    \* rclient[proc][c]: the Redis instance of a process for cache c
    renewMap,   \* renewMap[proc]: MutexLock.renewMap, insertion ordered
    rec,        \* rec[p]: the RenewRecord object created for caller p's lease
    pc,         \* pc[p]: position of caller p inside safeRun
    opt,        \* opt[p]: the options of caller p's safeRun call
    outcome,    \* outcome[p]: what safeRun gave its caller
    taskRuns,   \* taskRuns[p]: how often p's task body was started
    call,       \* call[a]: the proxied cache command agent a is awaiting
    dpc,        \* dpc[proc]: position of onModuleDestroy of that process
    dleft,      \* dleft[proc]: snapshot entries releaseAllHeldLocks still has to visit
    nDown,      \* number of connectivity losses so far
    nExpire,    \* number of TTL expiries so far
    \* ---- TTL normalisation ----
    ttlIn,      \* the ttlMs option of the latest safeRun: given or not, its value
    ttlOut,     \* the TTL that safeRun uses for it
    ratioIn,    \* the renewIntervalRatio option: given or not, its value
    renewInterval,  \* the interval of the renewal timer startAutoRenew sets
    \* ---- MySQL driver ----
    dstate,     \* the driver object: pool, isPoolDead, rebuildLock, connection,
                \* and the connections checked out of its pool by begin()
    qpc,        \* qpc[q]: position of driver caller q
    qloc,       \* qloc[q]: locals of q's driver call (retryOnConnectionError frame)
    qres,       \* qres[q]: what the driver call gave its caller
    qn,         \* driver calls made so far
    \* ---- Database and Table handles ----
    instances,  \* Database.instances: cache key -> Database
    tables,     \* the tables map of every Database: (Database, name) -> Table
    created,    \* the create calls that returned: config, type, Database
    tabled,     \* the table calls: Database, name, Table
    nDrivers,   \* drivers (and pools) constructed so far
    nTables,    \* Table objects constructed so far
    nDbCalls,   \* create and table calls made so far
    \* ---- one Table shared by its callers ----
    lastOperationResult,    \* Table._lastOperationResult
    tpc,        \* tpc[q]: position of caller q in its Table call
    tloc,       \* tloc[q]: the call of q: kind, arguments, what the driver gave
    tres,       \* tres[q]: how the Table call of q ended
    tn,         \* Table calls made so far
    \* ---- the query compiler ----
    compiled    \* the builder applied, its parameters, the statement or error

lockVars == <<cproc, cache, up, rclient, renewMap, rec, pc, opt, outcome, taskRuns,
              call, dpc, dleft, nDown, nExpire>>
ttlVars == <<ttlIn, ttlOut, ratioIn, renewInterval>>
driverVars == <<dstate, qpc, qloc, qres, qn>>
dbVars == <<instances, tables, created, tabled, nDrivers, nTables, nDbCalls>>
tableVars == <<lastOperationResult, tpc, tloc, tres, tn>>
compileVars == <<compiled>>
vars == <<lockVars, ttlVars, driverVars, dbVars, tableVars, compileVars>>

(***************************************************************************)
(* Bounds of the model                                                     *)
(***************************************************************************)
MaxNetDown == 1     \* connectivity losses explored
MaxExpire == 1      \* TTL expiries explored
TtlSpread == 12     \* ttlMs values explored on each side of every boundary
MaxRatio == 6       \* the largest renewIntervalRatio explored, in quarters
MaxOps == 3         \* driver calls explored
MaxDbCalls == 3     \* Database.create and table calls explored
MaxTableCalls == 3  \* calls on the Table explored
MaxRows == 2        \* largest affected-row count and batch size explored
MaxBatch == 3       \* largest batch of the calls of one caller
MaxValues == 3      \* longest array given to a range operator

Procs == {"P1", "P2"}
Callers == {"c1", "c2"}
Caches == {"default", "other"}
Keys == {"k1", "k2"}

\* the safeRun arguments each caller draws from
CallerKeys(p) == IF p = "c2" THEN Keys ELSE {"k1"}
CallerCaches(p) == IF p = "c2" THEN Caches ELSE {"default"}
CallerAutoRenew(p) == IF p = "c1" THEN BOOLEAN ELSE {TRUE}
\* c1 runs in P1; c2 runs in the same process or in another one
CallerProcs(p) == IF p = "c2" THEN Procs ELSE {"P1"}
\* the task of c1 returns or throws, the task of c2 returns
CallerTaskThrows(p) == IF p = "c1" THEN BOOLEAN ELSE {FALSE}

(***************************************************************************)
(* MutexLock constants                                                     *)
(***************************************************************************)
DEFAULT_TTL_MS == 30000
MIN_TTL_MS == 5000
MAX_TTL_MS == 600000
MAX_RENEW_FAILURES == 3
MIN_RENEW_INTERVAL_MS == 1000
DEFAULT_RENEW_RATIO == 2    \* 0.5, in units of 1/RatioUnit
MAX_RETRIES == 3

Max(a, b) == IF a >= b THEN a ELSE b
Min(a, b) == IF a <= b THEN a ELSE b

(***************************************************************************)
(* The cache server.  An entry is a value with a time-to-live.  Time is    *)
(* abstract: an entry is "fresh" right after SET ... PX or PEXPIRE, ages,  *)
(* and only an aged entry can expire.                                      *)
(***************************************************************************)
NoVal == "none"
NoEntry == [val |-> NoVal, fresh |-> FALSE]

\* generateLockValue: `${ownerId}:${timestamp}:${random}`.  Every caller
\* runs safeRun once, so the value is identified by the caller.
generateLockValue(p) == p

\* a SET without NX: what the acquisition would be without "only if absent"
SetAlways(e, v) == [e |-> [val |-> v, fresh |-> TRUE], res |-> "OK"]

\* client.set(key, value, {NX: true, PX: ttl}) as the server executes it
SetNX(e, v) ==
    IF e.val = NoVal
    THEN [e |-> [val |-> v, fresh |-> TRUE], res |-> "OK"]
    ELSE [e |-> e, res |-> "nil"]

\* a release script without the owner check
releaseUnchecked(e, v) ==
    IF e.val # NoVal THEN [e |-> NoEntry, res |-> "1"] ELSE [e |-> e, res |-> "0"]

\* the release script: GET == ARGV[1] ? DEL : 0
releaseScript(e, v) ==
    IF e.val = v THEN [e |-> NoEntry, res |-> "1"] ELSE [e |-> e, res |-> "0"]

\* the extend script: GET == ARGV[1] ? PEXPIRE : 0
extendScript(e, v) ==
    IF e.val = v
    THEN [e |-> [val |-> v, fresh |-> TRUE], res |-> "1"]
    ELSE [e |-> e, res |-> "0"]

\* one command executed by the server on an entry
Exec(op, e, v) ==
    CASE op = "set" -> SetNX(e, v)
      [] op = "release" -> releaseScript(e, v)
      [] op = "extend" -> extendScript(e, v)

(***************************************************************************)
(* The managed Redis client (Redis.ts).  A command invoked through the     *)
(* proxy is sent once by the proxy itself (result dropped) and then again  *)
(* by every attempt of retryOnConnectionError.                             *)
(***************************************************************************)
procOf(p) == cproc[p]

Agents == [kind : {"caller", "timer"}, id : Callers]
            \cup [kind : {"destroy"}, id : Procs]
CallerAgent(p) == [kind |-> "caller", id |-> p]
TimerAgent(p) == [kind |-> "timer", id |-> p]
DestroyAgent(proc) == [kind |-> "destroy", id |-> proc]
agentProc(a) == IF a.kind = "destroy" THEN a.id ELSE procOf(a.id)

NoCall == [st |-> "idle", op |-> "none", c |-> "none", k |-> "none",
           v |-> NoVal, attempt |-> 0, stale |-> FALSE, res |-> "none"]
NoClient == [dead |-> TRUE, open |-> FALSE]
NewClient == [dead |-> FALSE, open |-> TRUE]

\* the proxy's own call plus the first attempt, both on a reachable server
SendTwice(op, e, v) == Exec(op, Exec(op, e, v).e, v)

\* a transparent wrapper would send the command once
SendOnce(op, e, v) == Exec(op, e, v)

createProxiedClient(op, e, v) == SendTwice(op, e, v)

\* getClient() followed by the proxied command, up to the first suspension
\* that can fail: initialize() when there is no open client, then the
\* proxy's call and attempt 1.
Issue(a, op, c, k, v) ==
    LET proc == agentProc(a)
        cl == rclient[proc][c]
        base == [NoCall EXCEPT !.op = op, !.c = c, !.k = k, !.v = v]
    IN  IF ~cl.open /\ ~up[c]
        THEN \* createClient: connect() rejects, getClient throws
             /\ call' = [call EXCEPT ![a] = [base EXCEPT !.st = "thrown"]]
             /\ UNCHANGED <<cache, rclient>>
        ELSE LET ncl == IF cl.open THEN cl ELSE NewClient
             IN  IF up[c]
                 THEN LET r == createProxiedClient(op, cache[c][k], v)
                      IN  /\ cache' = [cache EXCEPT ![c][k] = r.e]
                          /\ rclient' = [rclient EXCEPT ![proc][c] = ncl]
                          /\ call' = [call EXCEPT ![a] =
                                 [base EXCEPT !.st = "ret", !.res = r.res]]
                 ELSE \* attempt 1 fails with a connectivity error
                      /\ cache' = cache
                      /\ rclient' = [rclient EXCEPT ![proc][c] =
                                        [ncl EXCEPT !.dead = TRUE]]
                      /\ call' = [call EXCEPT ![a] =
                             [base EXCEPT !.st = "retry", !.attempt = 2]]

\* recreateConnection destroys the client of (proc, c): the operations still
\* in flight on it hold a destroyed target from now on
Destroyed(cl, proc, c, a, mine) ==
    [b \in Agents |->
        IF b = a THEN mine
        ELSE IF cl[b].st = "retry" /\ agentProc(b) = proc /\ cl[b].c = c
             THEN [cl[b] EXCEPT !.stale = TRUE]
             ELSE cl[b]]

\* attempts 2 and 3 of Redis.retryOnConnectionError
RedisRetry(a) ==
    LET cur == call[a]
        proc == agentProc(a)
        c == cur.c
        cl == rclient[proc][c]
        giveUp == [cur EXCEPT !.st = "thrown", !.attempt = 0, !.stale = FALSE]
        again == IF cur.attempt = MAX_RETRIES THEN giveUp
                 ELSE [cur EXCEPT !.attempt = cur.attempt + 1, !.stale = TRUE]
    IN  /\ cur.st = "retry"
        /\ IF cl.dead
           THEN \* recreateConnection: destroy the client, doInitialize
                IF up[c]
                THEN \* a new client exists, the operation still calls the
                     \* destroyed one: "The client is closed", not retryable
                     /\ rclient' = [rclient EXCEPT ![proc][c] = NewClient]
                     /\ call' = Destroyed(call, proc, c, a, giveUp)
                     /\ cache' = cache
                ELSE \* connect() of the new client rejects
                     /\ rclient' = [rclient EXCEPT ![proc][c] = NoClient]
                     /\ call' = Destroyed(call, proc, c, a, again)
                     /\ cache' = cache
           ELSE IF cur.stale
                THEN /\ call' = [call EXCEPT ![a] = giveUp]
                     /\ UNCHANGED <<cache, rclient>>
                ELSE IF up[c]
                     THEN LET r == Exec(cur.op, cache[c][cur.k], cur.v)
                          IN  /\ cache' = [cache EXCEPT ![c][cur.k] = r.e]
                              /\ call' = [call EXCEPT ![a] =
                                     [cur EXCEPT !.st = "ret", !.res = r.res,
                                                 !.attempt = 0]]
                              /\ rclient' = rclient
                     ELSE /\ call' = [call EXCEPT ![a] = again]
                          /\ UNCHANGED <<cache, rclient>>
        /\ UNCHANGED <<cproc, up, renewMap, rec, pc, opt, outcome, taskRuns, dpc,
                       dleft, nDown, nExpire>>

(***************************************************************************)
(* MutexLock: the renewal map                                              *)
(***************************************************************************)
NoOwner == "none"
NoRec == [failures |-> 0, timer |-> FALSE]

\* renewMap.get(key): the caller whose record is stored under key
MapGet(m, k) ==
    IF \E i \in 1..Len(m) : m[i].key = k
    THEN m[CHOOSE i \in 1..Len(m) : m[i].key = k].owner
    ELSE NoOwner

MapDelete(m, k) == SelectSeq(m, LAMBDA e : e.key # k)

\* renewMap.set(key, record) of a key that is not in the map
MapSet(m, k, p) == Append(MapDelete(m, k), [key |-> k, owner |-> p])

\* clearRenewTimer(record)
clearRenewTimer(r, o) == [r EXCEPT ![o].timer = FALSE]

\* startAutoRenew(key, value, ...) by caller p: the map and the records after it
startAutoRenew(m, r, k, p) ==
    LET existing == MapGet(m, k)
    IN  IF existing # NoOwner /\ generateLockValue(existing) = generateLockValue(p)
        THEN [map |-> m, rec |-> r]
        ELSE LET r1 == IF existing # NoOwner THEN clearRenewTimer(r, existing) ELSE r
             IN  [map |-> MapSet(m, k, p),
                  rec |-> [r1 EXCEPT ![p] = [failures |-> 0, timer |-> TRUE]]]

\* a stopAutoRenew that stops whatever record is stored under key
stopAutoRenewAnyValue(m, r, k, v) ==
    LET o == MapGet(m, k)
    IN  IF o = NoOwner
        THEN [map |-> m, rec |-> r]
        ELSE [map |-> MapDelete(m, k), rec |-> clearRenewTimer(r, o)]

\* a stopAutoRenew that forgets the record without clearing its timer
stopAutoRenewKeepTimer(m, r, k, v) ==
    LET o == MapGet(m, k)
    IN  IF o = NoOwner \/ generateLockValue(o) # v
        THEN [map |-> m, rec |-> r]
        ELSE [map |-> MapDelete(m, k), rec |-> r]

\* stopAutoRenew(key, value): only when the stored record carries value
stopAutoRenew(m, r, k, v) ==
    LET o == MapGet(m, k)
    IN  IF o = NoOwner \/ generateLockValue(o) # v
        THEN [map |-> m, rec |-> r]
        ELSE [map |-> MapDelete(m, k), rec |-> clearRenewTimer(r, o)]

\* forceStopAutoRenew(key): whatever record is stored under key
forceStopAutoRenew(m, r, k) ==
    LET o == MapGet(m, k)
    IN  IF o = NoOwner
        THEN [map |-> m, rec |-> r]
        ELSE [map |-> MapDelete(m, k), rec |-> clearRenewTimer(r, o)]

(***************************************************************************)
(* MutexLock.safeRun                                                       *)
(***************************************************************************)
NoOpt == [key |-> "none", cache |-> "none", autoRenew |-> FALSE]

\* safeRun up to the SET NX of acquire()
SafeRun(p, k, c, ar) ==
    /\ pc[p] = "idle"
    /\ opt' = [opt EXCEPT ![p] = [key |-> k, cache |-> c, autoRenew |-> ar]]
    /\ Issue(CallerAgent(p), "set", c, k, generateLockValue(p))
    /\ pc' = [pc EXCEPT ![p] = "acquiring"]
    /\ UNCHANGED <<cproc, up, renewMap, rec, outcome, taskRuns, dpc, dleft, nDown, nExpire>>

\* acquire() returns; on success the renewal starts and the task is called
AcquireDone(p) ==
    LET a == CallerAgent(p)
        acquired == call[a].st = "ret" /\ call[a].res = "OK"
        proc == procOf(p)
    IN  /\ pc[p] = "acquiring"
        /\ call[a].st \in {"ret", "thrown"}
        /\ call' = [call EXCEPT ![a] = NoCall]
        /\ IF acquired
           THEN /\ pc' = [pc EXCEPT ![p] = "task"]
                /\ taskRuns' = [taskRuns EXCEPT ![p] = @ + 1]
                /\ outcome' = outcome
                /\ IF opt[p].autoRenew
                   THEN LET s == startAutoRenew(renewMap[proc], rec, opt[p].key, p)
                        IN  /\ renewMap' = [renewMap EXCEPT ![proc] = s.map]
                            /\ rec' = s.rec
                   ELSE UNCHANGED <<renewMap, rec>>
           ELSE /\ pc' = [pc EXCEPT ![p] = "done"]
                /\ outcome' = [outcome EXCEPT ![p] = "notAcquired"]
                /\ UNCHANGED <<renewMap, rec, taskRuns>>
        /\ UNCHANGED <<cproc, cache, up, rclient, opt, dpc, dleft, nDown, nExpire>>

\* releaseAndStopRenew(lockKey, lockValue, redisName) up to the release eval
releaseAndStopRenew(p) ==
    LET proc == procOf(p)
        s == stopAutoRenew(renewMap[proc], rec, opt[p].key, generateLockValue(p))
    IN  /\ renewMap' = [renewMap EXCEPT ![proc] = s.map]
        /\ rec' = s.rec
        /\ Issue(CallerAgent(p), "release", opt[p].cache, opt[p].key,
                 generateLockValue(p))

\* the task settles (threw = FALSE: it returned) and the cleanup begins
TaskSettles(p, threw) ==
    /\ pc[p] = "task"
    /\ releaseAndStopRenew(p)
    /\ pc' = [pc EXCEPT ![p] = IF threw THEN "releasingErr" ELSE "releasing"]
    /\ UNCHANGED <<cproc, up, opt, outcome, taskRuns, dpc, dleft, nDown, nExpire>>

\* releaseLock settles (its result and its failure are both ignored)
ReleaseDone(p) ==
    LET a == CallerAgent(p)
    IN  /\ pc[p] \in {"releasing", "releasingErr"}
        /\ call[a].st \in {"ret", "thrown"}
        /\ call' = [call EXCEPT ![a] = NoCall]
        /\ outcome' = [outcome EXCEPT ![p] =
               IF pc[p] = "releasing" THEN "ok" ELSE "rethrown"]
        /\ pc' = [pc EXCEPT ![p] = "done"]
        /\ UNCHANGED <<cproc, cache, up, rclient, renewMap, rec, opt, taskRuns, dpc,
                       dleft, nDown, nExpire>>

(***************************************************************************)
(* The renewal timer of a record (the setInterval callback)                *)
(***************************************************************************)
\* the callback starts: extendLockTtl(key, value, ttlMs, redisName)
TimerFire(p) ==
    /\ rec[p].timer
    /\ call[TimerAgent(p)].st = "idle"
    /\ Issue(TimerAgent(p), "extend", opt[p].cache, opt[p].key,
             generateLockValue(p))
    /\ UNCHANGED <<cproc, up, renewMap, rec, pc, opt, outcome, taskRuns, dpc, dleft,
                   nDown, nExpire>>

\* a bookkeeping that gives up one failure early
renewBookkeepingEarlyStop(m, r, p, k, success) ==
    IF success
    THEN [map |-> m, rec |-> [r EXCEPT ![p].failures = 0]]
    ELSE LET r1 == [r EXCEPT ![p].failures = @ + 1]
         IN  IF r1[p].failures >= MAX_RENEW_FAILURES - 1
             THEN stopAutoRenew(m, r1, k, generateLockValue(p))
             ELSE [map |-> m, rec |-> r1]

\* the callback's bookkeeping once extendLockTtl has settled
renewBookkeeping(m, r, p, k, success) ==
    IF success
    THEN [map |-> m, rec |-> [r EXCEPT ![p].failures = 0]]
    ELSE LET r1 == [r EXCEPT ![p].failures = @ + 1]
         IN  IF r1[p].failures >= MAX_RENEW_FAILURES
             THEN stopAutoRenew(m, r1, k, generateLockValue(p))
             ELSE [map |-> m, rec |-> r1]

TimerDone(p) ==
    LET a == TimerAgent(p)
        proc == procOf(p)
        success == call[a].st = "ret" /\ call[a].res = "1"
        s == renewBookkeeping(renewMap[proc], rec, p, opt[p].key, success)
    IN  /\ call[a].st \in {"ret", "thrown"}
        /\ call' = [call EXCEPT ![a] = NoCall]
        /\ renewMap' = [renewMap EXCEPT ![proc] = s.map]
        /\ rec' = s.rec
        /\ UNCHANGED <<cproc, cache, up, rclient, pc, opt, outcome, taskRuns, dpc,
                       dleft, nDown, nExpire>>

(***************************************************************************)
(* MutexLock.onModuleDestroy -> releaseAllHeldLocks                        *)
(***************************************************************************)
\* one loop iteration up to the release eval: forceStopAutoRenew(key), then
\* releaseLock(key, record.value) on the default cache instance
SweepEntry(proc, e) ==
    LET s == forceStopAutoRenew(renewMap[proc], rec, e.key)
    IN  /\ renewMap' = [renewMap EXCEPT ![proc] = s.map]
        /\ rec' = s.rec
        /\ Issue(DestroyAgent(proc), "release", "default", e.key,
                 generateLockValue(e.owner))

\* the snapshot Array.from(renewMap.entries()) and the first iteration
DestroyBegin(proc) ==
    /\ dpc[proc] = "idle"
    /\ \E p \in Callers : procOf(p) = proc
    /\ LET entries == renewMap[proc]
       IN  IF entries = <<>>
           THEN /\ dpc' = [dpc EXCEPT ![proc] = "done"]
                /\ UNCHANGED <<cache, rclient, renewMap, rec, call, dleft>>
           ELSE /\ dpc' = [dpc EXCEPT ![proc] = "sweeping"]
                /\ dleft' = [dleft EXCEPT ![proc] = Tail(entries)]
                /\ SweepEntry(proc, Head(entries))
    /\ UNCHANGED <<cproc, up, pc, opt, outcome, taskRuns, nDown, nExpire>>

\* a release settles: the next iteration, or the end of the sweep
DestroyNext(proc) ==
    LET a == DestroyAgent(proc)
    IN  /\ dpc[proc] = "sweeping"
        /\ call[a].st \in {"ret", "thrown"}
        /\ IF dleft[proc] = <<>>
           THEN /\ dpc' = [dpc EXCEPT ![proc] = "done"]
                /\ call' = [call EXCEPT ![a] = NoCall]
                /\ UNCHANGED <<cache, rclient, renewMap, rec, dleft>>
           ELSE /\ dleft' = [dleft EXCEPT ![proc] = Tail(@)]
                /\ SweepEntry(proc, Head(dleft[proc]))
                /\ dpc' = dpc
        /\ UNCHANGED <<cproc, up, pc, opt, outcome, taskRuns, nDown, nExpire>>

(***************************************************************************)
(* Environment of the lock: connectivity and the passing of time           *)
(***************************************************************************)
\* connectivity to the cache servers is lost: the clients' 'error' event
NetDown ==
    /\ \A c \in Caches : up[c]
    /\ nDown < MaxNetDown
    /\ nDown' = nDown + 1
    /\ up' = [c \in Caches |-> FALSE]
    /\ rclient' = [pr \in Procs |-> [c \in Caches |->
                       [rclient[pr][c] EXCEPT !.dead =
                            IF rclient[pr][c].open THEN TRUE ELSE @]]]
    /\ UNCHANGED <<cproc, cache, renewMap, rec, pc, opt, outcome, taskRuns, call,
                   dpc, dleft, nExpire>>

\* the servers are reachable again: open clients reconnect, their 'ready' event
NetUp ==
    /\ \A c \in Caches : ~up[c]
    /\ up' = [c \in Caches |-> TRUE]
    /\ rclient' = [pr \in Procs |-> [c \in Caches |->
                       [rclient[pr][c] EXCEPT !.dead =
                            IF rclient[pr][c].open THEN FALSE ELSE @]]]
    /\ UNCHANGED <<cproc, cache, renewMap, rec, pc, opt, outcome, taskRuns, call,
                   dpc, dleft, nDown, nExpire>>

\* time passes for an entry
Age(c, k) ==
    /\ cache[c][k].val # NoVal
    /\ cache[c][k].fresh
    /\ nExpire < MaxExpire
    /\ cache' = [cache EXCEPT ![c][k].fresh = FALSE]
    /\ UNCHANGED <<cproc, up, rclient, renewMap, rec, pc, opt, outcome, taskRuns, call,
                   dpc, dleft, nDown, nExpire>>

\* the TTL of an aged entry runs out
Expire(c, k) ==
    /\ cache[c][k].val # NoVal
    /\ ~cache[c][k].fresh
    /\ nExpire < MaxExpire
    /\ nExpire' = nExpire + 1
    /\ cache' = [cache EXCEPT ![c][k] = NoEntry]
    /\ UNCHANGED <<cproc, up, rclient, renewMap, rec, pc, opt, outcome, taskRuns, call,
                   dpc, dleft, nDown>>

InitLock ==
    /\ cproc \in {f \in [Callers -> Procs] : \A p \in Callers : f[p] \in CallerProcs(p)}
    /\ cache = [c \in Caches |-> [k \in Keys |-> NoEntry]]
    /\ up = [c \in Caches |-> TRUE]
    \* every Redis instance has been initialised by earlier use of the cache
    /\ rclient = [pr \in Procs |-> [c \in Caches |-> NewClient]]
    /\ renewMap = [pr \in Procs |-> <<>>]
    /\ rec = [p \in Callers |-> NoRec]
    /\ pc = [p \in Callers |-> "idle"]
    /\ opt = [p \in Callers |-> NoOpt]
    /\ outcome = [p \in Callers |-> "none"]
    /\ taskRuns = [p \in Callers |-> 0]
    /\ call = [a \in Agents |-> NoCall]
    /\ dpc = [pr \in Procs |-> "idle"]
    /\ dleft = [pr \in Procs |-> <<>>]
    /\ nDown = 0
    /\ nExpire = 0

(***************************************************************************)
(* MutexLock.normalizeTtl                                                  *)
(***************************************************************************)
\* opts?.ttlMs: not given (undefined), or an integer
NoTtl == [given |-> FALSE, ms |-> 0]
TtlValues ==
    UNION {(b - TtlSpread)..(b + TtlSpread) :
              b \in {0, MIN_TTL_MS, DEFAULT_TTL_MS, MAX_TTL_MS}}
TtlOptions == {NoTtl} \cup [given : {TRUE}, ms : TtlValues]

\* a normalisation that takes every falsy ttlMs for "not given"
normalizeTtlFalsy(ttl) ==
    LET value == IF ttl.given /\ ttl.ms # 0 THEN ttl.ms ELSE DEFAULT_TTL_MS
    IN  Max(MIN_TTL_MS, Min(value, MAX_TTL_MS))

\* normalizeTtl(ttl): value = ttl ?? DEFAULT_TTL_MS, clamped
normalizeTtl(ttl) ==
    LET value == IF ttl.given THEN ttl.ms ELSE DEFAULT_TTL_MS
    IN  Max(MIN_TTL_MS, Min(value, MAX_TTL_MS))

\* opts?.renewIntervalRatio: not given, or a number, here one of the
\* multiples of 1/RatioUnit from -1/RatioUnit to MaxRatio/RatioUnit (binary
\* fractions, so that ttlMs * ratio is exact in floating point)
RatioUnit == 4
NoRatio == [given |-> FALSE, units |-> 0]
RatioOptions == {NoRatio} \cup [given : {TRUE}, units : (0 - 1)..MaxRatio]

\* opts?.renewIntervalRatio ?? DEFAULT_RENEW_RATIO, in units of 1/RatioUnit
renewRatio(ratio) == IF ratio.given THEN ratio.units ELSE DEFAULT_RENEW_RATIO

\* startAutoRenew: Math.max(MIN_RENEW_INTERVAL_MS, Math.floor(ttlMs * ratio))
renewIntervalOf(ttlMs, units) ==
    Max(MIN_RENEW_INTERVAL_MS, (ttlMs * units) \div RatioUnit)

\* safeRun computes the TTL of a call and the interval of its renewal
\* timer from its options
SafeRunTtl(t, r) ==
    /\ ttlIn' = t
    /\ ttlOut' = normalizeTtl(t)
    /\ ratioIn' = r
    /\ renewInterval' = renewIntervalOf(normalizeTtl(t), renewRatio(r))

InitTtl ==
    /\ ttlIn = NoTtl
    /\ ttlOut = normalizeTtl(NoTtl)
    /\ ratioIn = NoRatio
    /\ renewInterval = renewIntervalOf(normalizeTtl(NoTtl), renewRatio(NoRatio))

(***************************************************************************)
(* MySQLDriver: the retry protocol, the pool rebuild and the transaction   *)
(* pin.  An error is its code and the marker phrases its message contains. *)
(***************************************************************************)
DCallers == {"q1", "q2"}
FacadeCaller == "q1"
QueryKinds == {"query", "execute"}
EndKinds == {"commit", "rollback"}

NoError == [code |-> "none", message |-> {}]
OkOutcome == [code |-> "OK", message |-> {}]
UsageError == [code |-> "usage", message |-> {}]
TypeError == [code |-> "TypeError", message |-> {}]
\* the errors an awaited call raises here: a transport error known by its
\* code, one known by its message only, and a constraint violation
Errors ==
    { [code |-> "ECONNRESET", message |-> {}],
      [code |-> "ERR_STREAM", message |-> {"Connection closed"}],
      [code |-> "ER_DUP_ENTRY", message |-> {"Duplicate entry"}] }
Outcomes == {OkOutcome} \cup Errors

connectionErrorCodes ==
    {"PROTOCOL_CONNECTION_LOST", "ECONNREFUSED", "ECONNRESET", "ETIMEDOUT",
     "EHOSTUNREACH", "ENETUNREACH", "EPIPE"}

\* a classification that takes every error for a connection error
isAnyError(error) == error # NoError

\* isConnectionError(error)
isConnectionError(error) ==
    /\ error # NoError
    /\ \/ error.code \in connectionErrorCodes
       \/ "Connection lost" \in error.message
       \/ "Connection closed" \in error.message

\* the frame of a driver call.  Besides the locals of the code it records
\* the rebuilds the call started and whether the call is undisturbed: entered
\* on a healthy driver with no other call in flight, and none entered since.
\* settled is what the latest operation() gave.
\* For a transaction(callback) it records the runs of the callback, what the
\* callback gave, and the commit and rollback statements issued.
NoLoc == [kind |-> "none", inTx |-> FALSE, attempt |-> 0,
          consecutiveErrors |-> 0, lastError |-> NoError, calls |-> 0,
          executor |-> "none", rebuilds |-> 0, quiet |-> FALSE,
          settled |-> NoError,
          cbRuns |-> 0, cbValue |-> 0, cbError |-> NoError,
          commits |-> 0, rollbacks |-> 0]
NoRes == [st |-> "none", val |-> 0, err |-> NoError]
Pinned == dstate.connection # "none"

InFlight(q) == qpc[q] \notin {"idle", "done"}

\* the driver is healthy and no call is in flight on it
Healthy ==
    /\ ~dstate.isPoolDead /\ ~dstate.rebuildLock
    /\ \A p \in DCallers : ~InFlight(p)

\* caller q enters a driver call with frame loc: the calls in flight are no
\* longer undisturbed
Enter(q, loc) ==
    [p \in DCallers |->
        IF p = q THEN [loc EXCEPT !.quiet = Healthy]
        ELSE IF InFlight(p) THEN [qloc[p] EXCEPT !.quiet = FALSE] ELSE qloc[p]]

\* a protocol that never rebuilds the pool
NeverRebuild(loc) == FALSE

\* if (this.isPoolDead && attempt > 1): the attempt begins with recreatePool()
NeedsRebuild(loc) == dstate.isPoolDead /\ loc.attempt > 1

\* if (consecutiveErrors >= 2): the pool is marked dead
MarksDead(n) == n >= 2

\* operation(): the executor of query/execute is this.connection || this.pool,
\* the executor of ping is this.pool
Invoke(loc) ==
    [loc EXCEPT !.calls = @ + 1,
                !.executor = IF Pinned /\ loc.kind # "ping" THEN "conn" ELSE "pool"]

\* a ping() without its try/catch
PingNeverCatches(kind) == FALSE

\* ping(): try { await retryOnConnectionError(...); return true }
\*         catch { return false }
PingCatches(kind) == kind = "ping"

\* the call of q ends with a result, or with an error.  ping() gives true
\* (1) for a result and false (0) for an error.
Returns(q, v) ==
    /\ qpc' = [qpc EXCEPT ![q] = "done"]
    /\ qres' = [qres EXCEPT ![q] =
                   [st |-> "ok", val |-> IF qloc[q].kind = "ping" THEN 1 ELSE v,
                    err |-> NoError]]
Throws(q, e) ==
    /\ qpc' = [qpc EXCEPT ![q] = "done"]
    /\ qres' = [qres EXCEPT ![q] =
                   IF PingCatches(qloc[q].kind)
                   THEN [st |-> "ok", val |-> 0, err |-> NoError]
                   ELSE [st |-> "err", val |-> 0, err |-> e]]

\* the attempts of retryOnConnectionError: for (attempt = 1; attempt <= 3; ...)
MaxAttempts == 3

\* a loop that gives up one attempt later
LastAttemptFourth(loc) == loc.attempt = MaxAttempts + 1

\* if (attempt === 3): the failure of the last attempt is thrown
LastAttempt(loc) == loc.attempt = MaxAttempts

\* query(sql, params) / execute(sql, params): retryOnConnectionError up to
\* the first await of operation()
DriverCall(q, kind) ==
    /\ qpc[q] = "idle" /\ qn < MaxOps
    /\ qn' = qn + 1
    /\ qres' = [qres EXCEPT ![q] = NoRes]
    /\ qloc' = Enter(q, Invoke([NoLoc EXCEPT !.kind = kind, !.inTx = Pinned,
                                             !.attempt = IF Pinned THEN 0 ELSE 1]))
    /\ qpc' = [qpc EXCEPT ![q] = IF Pinned THEN "opTx" ELSE "op"]
    /\ UNCHANGED dstate

\* inside a transaction: return operation(), whatever it gives
SettleTx(q, r) ==
    /\ qpc[q] = "opTx"
    /\ IF r = OkOutcome THEN Returns(q, qloc[q].calls) ELSE Throws(q, r)
    /\ qloc' = [qloc EXCEPT ![q].settled = r]
    /\ UNCHANGED <<dstate, qn>>

\* the awaited operation() of an attempt settles: the rest of the try block,
\* or the catch block up to the delay
Settle(q, r) ==
    LET loc == qloc[q]
        n == loc.consecutiveErrors + 1
    IN  /\ qpc[q] = "op"
        /\ IF r = OkOutcome
           THEN /\ qloc' = [qloc EXCEPT ![q].consecutiveErrors = 0,
                                        ![q].settled = r]
                /\ dstate' = [dstate EXCEPT !.isPoolDead = FALSE]
                /\ Returns(q, loc.calls)
           ELSE IF ~isConnectionError(r)
                THEN /\ qloc' = [qloc EXCEPT ![q].lastError = r,
                                             ![q].settled = r]
                     /\ Throws(q, r)
                     /\ dstate' = dstate
                ELSE /\ qloc' = [qloc EXCEPT ![q].consecutiveErrors = n,
                                             ![q].lastError = r,
                                             ![q].settled = r]
                     /\ dstate' = [dstate EXCEPT !.isPoolDead =
                                       IF MarksDead(n) THEN TRUE ELSE @]
                     /\ IF LastAttempt(loc)
                        THEN Throws(q, r)
                        ELSE /\ qpc' = [qpc EXCEPT ![q] = "delay"]
                             /\ qres' = qres
        /\ UNCHANGED qn

\* a recreatePool() that never finds a rebuild task
RebuildNeverInFlight == FALSE

\* recreatePool(): if (this.rebuildLock)
RebuildInFlight == dstate.rebuildLock

\* the delay is over: the next attempt begins, with recreatePool() when the
\* pool is marked dead
DelayDone(q) ==
    LET loc == [qloc[q] EXCEPT !.attempt = @ + 1]
    IN  /\ qpc[q] = "delay"
        /\ IF NeedsRebuild(loc)
           THEN IF RebuildInFlight
                THEN \* return this.rebuildLock
                     /\ qpc' = [qpc EXCEPT ![q] = "rebuildWait"]
                     /\ qloc' = [qloc EXCEPT ![q] = loc]
                     /\ dstate' = dstate
                ELSE \* the rebuild task runs up to its end without suspending
                     /\ qpc' = [qpc EXCEPT ![q] = "rebuild"]
                     /\ qloc' = [qloc EXCEPT ![q] = [loc EXCEPT !.rebuilds = @ + 1]]
                     /\ dstate' = [dstate EXCEPT !.pool = @ + 1,
                                                 !.isPoolDead = FALSE,
                                                 !.rebuildLock = TRUE]
           ELSE /\ qpc' = [qpc EXCEPT ![q] = "op"]
                /\ qloc' = [qloc EXCEPT ![q] = Invoke(loc)]
                /\ dstate' = dstate
        /\ UNCHANGED <<qres, qn>>

\* await this.rebuildLock returns in the caller that created it: the lock is
\* released and the attempt's operation() is called
RebuildDone(q) ==
    /\ qpc[q] = "rebuild"
    /\ dstate' = [dstate EXCEPT !.rebuildLock = FALSE]
    /\ qpc' = [qpc EXCEPT ![q] = "op"]
    /\ qloc' = [qloc EXCEPT ![q] = Invoke(@)]
    /\ UNCHANGED <<qres, qn>>

\* the rebuild another caller started is over for a caller that waited for it
RebuildJoined(q) ==
    /\ qpc[q] = "rebuildWait"
    /\ qpc' = [qpc EXCEPT ![q] = "op"]
    /\ qloc' = [qloc EXCEPT ![q] = Invoke(@)]
    /\ UNCHANGED <<dstate, qres, qn>>

\* begin(): refused when a connection is pinned, else pool.getConnection()
Begin(q) ==
    /\ qpc[q] = "idle" /\ qn < MaxOps
    /\ qn' = qn + 1
    /\ qloc' = Enter(q, [NoLoc EXCEPT !.kind = "begin", !.inTx = Pinned])
    /\ IF Pinned
       THEN Throws(q, UsageError)
       ELSE /\ qpc' = [qpc EXCEPT ![q] = "getConnection"]
            /\ qres' = [qres EXCEPT ![q] = NoRes]
    /\ UNCHANGED dstate

\* pool.getConnection() settles; this.connection is assigned; beginTransaction()
GetConnectionDone(q, r) ==
    /\ qpc[q] = "getConnection"
    /\ IF r = OkOutcome
       THEN /\ dstate' = [dstate EXCEPT !.connection = q,
                                        !.checkedOut = @ + 1]
            /\ qpc' = [qpc EXCEPT ![q] = "beginTransaction"]
            /\ qres' = qres
       ELSE /\ Throws(q, r)
            /\ dstate' = dstate
    /\ UNCHANGED <<qloc, qn>>

\* connection.beginTransaction() settles
BeginTransactionDone(q, r) ==
    /\ qpc[q] = "beginTransaction"
    /\ IF r = OkOutcome THEN Returns(q, 0) ELSE Throws(q, r)
    /\ UNCHANGED <<dstate, qloc, qn>>

\* a commit()/rollback() that releases the connection and keeps the pin
UnpinKeep(d) == [d EXCEPT !.checkedOut = @ - 1]

\* this.connection.release(); this.connection = undefined
Unpin(d) == [d EXCEPT !.connection = "none", !.checkedOut = @ - 1]

\* commit() / rollback(): refused when nothing is pinned
EndTransaction(q, kind) ==
    /\ qpc[q] = "idle" /\ qn < MaxOps
    /\ qn' = qn + 1
    /\ qloc' = Enter(q, [NoLoc EXCEPT !.kind = kind, !.inTx = Pinned])
    /\ IF ~Pinned
       THEN Throws(q, UsageError)
       ELSE /\ qpc' = [qpc EXCEPT ![q] = "ending"]
            /\ qres' = [qres EXCEPT ![q] = NoRes]
    /\ UNCHANGED dstate

\* connection.commit() / rollback() settles; then release() and the unpin
EndTransactionDone(q, r) ==
    /\ qpc[q] = "ending"
    /\ IF r = OkOutcome
       THEN IF Pinned
            THEN /\ dstate' = Unpin(dstate)
                 /\ Returns(q, 0)
            ELSE \* another caller has unpinned: release() of undefined
                 /\ Throws(q, TypeError)
                 /\ dstate' = dstate
       ELSE /\ Throws(q, r)
            /\ dstate' = dstate
    /\ UNCHANGED <<qloc, qn>>

\* what a transaction callback gives: a value, or an error of its own
CallbackError == [code |-> "callback", message |-> {"callback failed"}]
CallbackValues == {1, 2}

\* transaction(callback): await begin()
Transaction(q) ==
    /\ qpc[q] = "idle" /\ qn < MaxOps
    /\ qn' = qn + 1
    /\ qloc' = Enter(q, [NoLoc EXCEPT !.kind = "transaction", !.inTx = Pinned])
    /\ IF Pinned
       THEN Throws(q, UsageError)
       ELSE /\ qpc' = [qpc EXCEPT ![q] = "txGetConnection"]
            /\ qres' = [qres EXCEPT ![q] = NoRes]
    /\ UNCHANGED dstate

\* begin() inside transaction(): pool.getConnection() settles
TxGetConnectionDone(q, r) ==
    /\ qpc[q] = "txGetConnection"
    /\ IF r = OkOutcome
       THEN /\ dstate' = [dstate EXCEPT !.connection = q,
                                        !.checkedOut = @ + 1]
            /\ qpc' = [qpc EXCEPT ![q] = "txBeginTransaction"]
            /\ qres' = qres
       ELSE /\ Throws(q, r)
            /\ dstate' = dstate
    /\ UNCHANGED <<qloc, qn>>

\* begin() inside transaction(): beginTransaction() settles; on success the
\* try block calls callback()
TxBeginTransactionDone(q, r) ==
    /\ qpc[q] = "txBeginTransaction"
    /\ IF r = OkOutcome
       THEN /\ qpc' = [qpc EXCEPT ![q] = "txCallback"]
            /\ qloc' = [qloc EXCEPT ![q].cbRuns = @ + 1]
            /\ qres' = qres
       ELSE /\ Throws(q, r)
            /\ qloc' = qloc
    /\ UNCHANGED <<dstate, qn>>

\* catch (error) { await rollback(); throw error }: rollback() up to its await
TxCatch(q, loc, error) ==
    /\ dstate' = dstate
    /\ IF ~Pinned
       THEN /\ Throws(q, UsageError)
            /\ qloc' = [qloc EXCEPT ![q] = [loc EXCEPT !.lastError = error]]
       ELSE /\ qpc' = [qpc EXCEPT ![q] = "txRollback"]
            /\ qloc' = [qloc EXCEPT ![q] = [loc EXCEPT !.lastError = error,
                                                       !.rollbacks = @ + 1]]
            /\ qres' = qres

\* await callback() settles: commit() up to its await, or the catch block
TxCallbackDone(q, ok, v) ==
    /\ qpc[q] = "txCallback"
    /\ IF ok
       THEN LET loc == [qloc[q] EXCEPT !.cbValue = v]
            IN  IF ~Pinned
                THEN TxCatch(q, loc, UsageError)
                ELSE /\ qpc' = [qpc EXCEPT ![q] = "txCommit"]
                     /\ qloc' = [qloc EXCEPT ![q] = [loc EXCEPT !.commits = @ + 1]]
                     /\ UNCHANGED <<dstate, qres>>
       ELSE TxCatch(q, [qloc[q] EXCEPT !.cbError = CallbackError], CallbackError)
    /\ UNCHANGED qn

\* connection.commit() settles inside transaction(): release, unpin and
\* return result, or the catch block
TxCommitDone(q, r) ==
    /\ qpc[q] = "txCommit"
    /\ IF r = OkOutcome
       THEN IF Pinned
            THEN /\ dstate' = Unpin(dstate)
                 /\ Returns(q, qloc[q].cbValue)
                 /\ qloc' = qloc
            ELSE TxCatch(q, qloc[q], TypeError)
       ELSE TxCatch(q, qloc[q], r)
    /\ UNCHANGED qn

\* connection.rollback() settles inside the catch block: release, unpin and
\* throw error, or the error of rollback()
TxRollbackDone(q, r) ==
    /\ qpc[q] = "txRollback"
    /\ IF r = OkOutcome
       THEN IF Pinned
            THEN /\ dstate' = Unpin(dstate)
                 /\ Throws(q, qloc[q].lastError)
            ELSE /\ Throws(q, TypeError)
                 /\ dstate' = dstate
       ELSE /\ Throws(q, r)
            /\ dstate' = dstate
    /\ UNCHANGED <<qloc, qn>>

\* the caller takes the outcome and is free for its next driver call
Resume(q) ==
    /\ qpc[q] = "done" /\ qn < MaxOps
    /\ qpc' = [qpc EXCEPT ![q] = "idle"]
    /\ qloc' = [qloc EXCEPT ![q] = NoLoc]
    /\ qres' = [qres EXCEPT ![q] = NoRes]
    /\ UNCHANGED <<dstate, qn>>

InitDriver ==
    /\ dstate = [pool |-> 0, isPoolDead |-> FALSE, rebuildLock |-> FALSE,
                 connection |-> "none", checkedOut |-> 0]
    /\ qpc = [q \in DCallers |-> "idle"]
    /\ qloc = [q \in DCallers |-> NoLoc]
    /\ qres = [q \in DCallers |-> NoRes]
    /\ qn = 0

(***************************************************************************)
(* Database: the instance cache and the table cache                        *)
(***************************************************************************)
\* the values of a config field: undefined, a string, a number
Undefined == [undef |-> TRUE]
Str(x) == [str |-> x]
Num(n) == [num |-> n]

\* the properties of keyConfig, in the order of the object literal
KeyConfigKeys ==
    <<"type", "host", "port", "user", "database", "connectionString",
      "connectionLimit", "queueLimit", "enableKeepAlive", "connectTimeout",
      "acquireTimeout", "timeout">>
\* Object.keys(keyConfig).sort(): the same names in code-unit order
SortedKeyConfigKeys ==
    <<"acquireTimeout", "connectTimeout", "connectionLimit", "connectionString",
      "database", "enableKeepAlive", "host", "port", "queueLimit", "timeout",
      "type", "user">>
\* the fields of DatabaseConfig that take a value here
ConfigFields == {KeyConfigKeys[i] : i \in 1..Len(KeyConfigKeys)} \cup {"password"}

DatabaseTypes == {"mysql", "postgresql"}

\* the config objects that create is called with
ConfigObjects ==
    { [f \in ConfigFields |->
          CASE f = "type" -> t
            [] f = "host" -> h
            [] f = "port" -> pt
            [] f = "password" -> pw
            [] OTHER -> Undefined] :
      t \in {Undefined, Str("mysql"), Str("postgresql")},
      h \in {Str("a"), Str("b")},
      pt \in {Undefined, Num(3306)},
      pw \in {Str("p1"), Str("p2")} }
\* the connection strings that create is called with
ConnectionStrings == {"mysql://a/app", "mysql://b/app"}
NoFields == [f \in ConfigFields |-> Undefined]
\* config: string | DatabaseConfig
Configs ==
    {[isString |-> TRUE, text |-> x, fields |-> NoFields] : x \in ConnectionStrings}
    \cup {[isString |-> FALSE, text |-> "", fields |-> o] : o \in ConfigObjects}

\* config.type || type
EffectiveType(config, type) ==
    IF config.isString \/ config.fields["type"] = Undefined
    THEN type
    ELSE config.fields["type"].str

\* JSON.stringify(obj, keys): the properties named by keys, in that order,
\* those with an undefined value left out
Stringify(obj, keys) ==
    SelectSeq([i \in 1..Len(keys) |-> <<keys[i], obj[keys[i]]>>],
              LAMBDA pr : pr[2] # Undefined)

\* a cache key made of the config as given, secret included
generateCacheKeyWhole(config, type) ==
    [text |-> <<type, ":", config.text>>, json |-> config.fields]

\* generateCacheKey: `${type}:${config}` for a string, else the JSON text
\* of keyConfig under its sorted key list
generateCacheKey(config, type) ==
    IF config.isString
    THEN [text |-> <<type, ":", config.text>>]
    ELSE LET keyConfig ==
                 [f \in {KeyConfigKeys[i] : i \in 1..Len(KeyConfigKeys)} |->
                     IF f = "type"
                     THEN Str(EffectiveType(config, type))
                     ELSE config.fields[f]]
         IN  [json |-> Stringify(keyConfig, SortedKeyConfigKeys)]

\* Map.get: the value under a key, 0 for undefined
CacheGet(m, k) == IF \E e \in m : e.key = k THEN (CHOOSE e \in m : e.key = k).val ELSE 0
\* Map.set
CacheSet(m, k, v) == {e \in m : e.key # k} \cup {[key |-> k, val |-> v]}

\* createDriverAndDialect: only mysql has a driver
Supported(type) == type = "mysql"

\* Database.create(config, type)
Create(config, type) ==
    LET cacheKey == generateCacheKey(config, type)
        cached == CacheGet(instances, cacheKey)
        instance == nDrivers + 1
    IN  /\ nDbCalls < MaxDbCalls
        /\ nDbCalls' = nDbCalls + 1
        /\ IF cached # 0
           THEN /\ created' = created \cup
                       {[config |-> config, type |-> type, db |-> cached]}
                /\ UNCHANGED <<instances, nDrivers>>
           ELSE IF ~Supported(EffectiveType(config, type))
                THEN UNCHANGED <<instances, nDrivers, created>>
                ELSE /\ nDrivers' = instance
                     /\ instances' = CacheSet(instances, cacheKey, instance)
                     /\ created' = created \cup
                            {[config |-> config, type |-> type, db |-> instance]}
        /\ UNCHANGED <<tables, tabled, nTables>>

TableNames == {"users", "orders"}

\* db.table(name)
TableOf(db, name) ==
    LET k == <<db, name>>
        cached == CacheGet(tables, k)
        instance == nTables + 1
    IN  /\ nDbCalls < MaxDbCalls
        /\ nDbCalls' = nDbCalls + 1
        /\ IF cached # 0
           THEN /\ tabled' = tabled \cup {[db |-> db, name |-> name, tbl |-> cached]}
                /\ UNCHANGED <<tables, nTables>>
           ELSE /\ nTables' = instance
                /\ tables' = CacheSet(tables, k, instance)
                /\ tabled' = tabled \cup {[db |-> db, name |-> name, tbl |-> instance]}
        /\ UNCHANGED <<instances, created, nDrivers>>

InitDb ==
    /\ instances = {}
    /\ tables = {}
    /\ created = {}
    /\ tabled = {}
    /\ nDrivers = 0
    /\ nTables = 0
    /\ nDbCalls = 0

(***************************************************************************)
(* MySQLDialect: the query compiler                                        *)
(***************************************************************************)
\* JavaScript values of a field: undefined, null, numbers, booleans, arrays
\* and objects whose own keys, in insertion order, are read as operators
VUndefined == [t |-> "undefined"]
VNull == [t |-> "null"]
VNum(n) == [t |-> "number", n |-> n]
VBool(b) == [t |-> "boolean", b |-> b]
VArray(items) == [t |-> "array", items |-> items]
VObject(ops) == [t |-> "object", ops |-> ops]

\* one own property of an object: its key and its value
Prop(key, value) == [key |-> key, value |-> value]

\* Object.keys(value) with the values: the indices of an array, the own
\* keys of an object
Entries(value) ==
    IF value.t = "array"
    THEN [i \in 1..Len(value.items) |-> Prop("index", value.items[i])]
    ELSE value.ops

\* the pieces of a statement text: a positional placeholder (with the value
\* it was written for), an escaped identifier, a piece of SQL
Q(value) == [k |-> "?", bind |-> value]
Id(key) == [k |-> "id", s |-> key]
Kw(s) == [k |-> "kw", s |-> s]

\* { prepare, holders } of a fragment, and a thrown Error
VH(prepare, holders) == [error |-> "none", prepare |-> prepare, holders |-> holders]
Throw(message) == [error |-> message, prepare |-> <<>>, holders |-> <<>>]

\* parts.join(sep)
RECURSIVE JoinParts(_, _)
JoinParts(parts, sep) ==
    IF Len(parts) = 0 THEN <<>>
    ELSE IF Len(parts) = 1 THEN parts[1]
    ELSE parts[1] \o sep \o JoinParts(Tail(parts), sep)

\* the concatenation of a sequence of sequences
RECURSIVE Flatten(_)
Flatten(ss) == IF Len(ss) = 0 THEN <<>> ELSE ss[1] \o Flatten(Tail(ss))

\* the loop "result = f(x); if (result.prepare) { parts.push(result.prepare);
\* holders.push(...result.holders) }" over results: the error of the first
\* result that throws, else the fragments kept and their holders in order
Collect(results) ==
    LET thrown == {i \in 1..Len(results) : results[i].error # "none"}
        kept == SelectSeq(results, LAMBDA r : Len(r.prepare) > 0)
    IN  IF thrown # {}
        THEN Throw(results[CHOOSE i \in thrown : \A j \in thrown : i <= j].error)
        ELSE [error |-> "none",
              parts |-> [i \in 1..Len(kept) |-> kept[i].prepare],
              holders |-> Flatten([i \in 1..Len(kept) |-> kept[i].holders])]

\* { prepare: parts.join(sep), holders } of the results of such a loop
Joined(results, sep) ==
    IF results.error # "none" THEN Throw(results.error)
    ELSE VH(JoinParts(results.parts, sep), results.holders)

\* toSQLHolder: a boolean becomes 1 or 0, any other value is passed as it is
toSQLHolder(value) ==
    IF value.t = "boolean" THEN VNum(IF value.b THEN 1 ELSE 0) ELSE value

\* the arithmetic sign of an update operator
UpdateSign(operator) ==
    CASE operator = "increment" -> "+"
      [] operator = "decrement" -> "-"
      [] operator = "multiply" -> "*"
      [] operator = "divide" -> "/"

\* createDataFilter: one assignment of the SET clause
createDataFilter(key, value) ==
    LET field == Id(key)
        operators == Entries(value)
        operator == operators[1].key
        opValue == operators[1].value
    IN  CASE value.t = "null" -> VH(<<field, Kw("="), Kw("NULL")>>, <<>>)
          [] value.t = "undefined" -> VH(<<>>, <<>>)
          [] value.t \in {"number", "boolean"} ->
               VH(<<field, Kw("="), Q(toSQLHolder(value))>>, <<toSQLHolder(value)>>)
          [] OTHER ->
               IF Len(operators) = 0 THEN VH(<<>>, <<>>)
               ELSE CASE operator = "set" ->
                           VH(<<field, Kw("="), Q(toSQLHolder(opValue))>>,
                              <<toSQLHolder(opValue)>>)
                      [] operator \in {"increment", "decrement", "multiply", "divide"} ->
                           VH(<<field, Kw("="), field, Kw(UpdateSign(operator)), Q(opValue)>>,
                              <<opValue>>)
                      [] OTHER -> VH(<<>>, <<>>)

\* OperatorMap: the SQL of a query operator
OperatorMap(operator) ==
    CASE operator = "eq" -> "="
      [] operator = "ne" -> "!="
      [] operator = "gt" -> ">"
      [] operator = "lt" -> "<"
      [] operator = "in" -> "IN"
      [] operator = "notIn" -> "NOT IN"
      [] operator = "between" -> "BETWEEN"
      [] operator = "notBetween" -> "NOT BETWEEN"
      [] operator = "like" -> "LIKE"

\* value.map(() => '?').join(', ') with the values the marks stand for
Placeholders(values) ==
    JoinParts([i \in 1..Len(values) |-> <<Q(toSQLHolder(values[i]))>>], <<Kw(",")>>)

\* createOperatorCondition that takes a range of any length
createOperatorConditionAnyRange(key, operator, value) ==
    LET field == Id(key)
        items == IF value.t = "array" THEN value.items ELSE <<value>>
    IN  CASE operator \in {"eq", "ne", "gt", "lt", "like"} ->
               VH(<<field, Kw(OperatorMap(operator)), Q(toSQLHolder(value))>>,
                  <<toSQLHolder(value)>>)
          [] operator \in {"in", "notIn"} ->
               VH(<<field, Kw(OperatorMap(operator)), Kw("(")>>
                      \o Placeholders(items) \o <<Kw(")")>>,
                  [i \in 1..Len(items) |-> toSQLHolder(items[i])])
          [] operator \in {"between", "notBetween"} ->
               VH(<<field, Kw(OperatorMap(operator)), Q(toSQLHolder(items[1])),
                    Kw("AND"), Q(toSQLHolder(items[Len(items)]))>>,
                  <<toSQLHolder(items[1]), toSQLHolder(items[Len(items)])>>)
          [] OTHER -> VH(<<>>, <<>>)

\* createOperatorCondition: the condition of one operator of a field
createOperatorCondition(key, operator, value) ==
    LET field == Id(key)
    IN  CASE operator \in {"eq", "ne", "gt", "lt"} ->
               VH(<<field, Kw(OperatorMap(operator)), Q(toSQLHolder(value))>>,
                  <<toSQLHolder(value)>>)
          [] operator \in {"in", "notIn"} ->
               IF value.t # "array"
               THEN Throw("operator requires an array value")
               ELSE IF Len(value.items) = 0
               THEN Throw("operator requires a non-empty array")
               ELSE VH(<<field, Kw(OperatorMap(operator)), Kw("(")>>
                           \o Placeholders(value.items) \o <<Kw(")")>>,
                       [i \in 1..Len(value.items) |-> toSQLHolder(value.items[i])])
          [] operator \in {"between", "notBetween"} ->
               IF value.t # "array"
               THEN Throw("operator requires an array value")
               ELSE IF Len(value.items) # 2
               THEN Throw("operator requires exactly 2 values")
               ELSE VH(<<field, Kw(OperatorMap(operator)),
                         Q(toSQLHolder(value.items[1])), Kw("AND"),
                         Q(toSQLHolder(value.items[2]))>>,
                       <<toSQLHolder(value.items[1]), toSQLHolder(value.items[2])>>)
          [] operator = "like" ->
               VH(<<field, Kw(OperatorMap(operator)), Q(value)>>, <<value>>)
          [] operator = "isNull" ->
               IF value.t # "boolean" THEN VH(<<>>, <<>>)
               ELSE IF value.b THEN VH(<<field, Kw("IS NULL")>>, <<>>)
               ELSE VH(<<field, Kw("IS NOT NULL")>>, <<>>)
          [] OTHER -> VH(<<>>, <<>>)

\* createFilter: the conditions of the operators of one field, bracketed
\* and joined by AND when there are several
OperatorConditions(results) ==
    IF results.error # "none" THEN Throw(results.error)
    ELSE IF Len(results.parts) = 0 THEN VH(<<>>, <<>>)
    ELSE IF Len(results.parts) > 1
    THEN VH(<<Kw("(")>> \o JoinParts(results.parts, <<Kw("AND")>>) \o <<Kw(")")>>,
            results.holders)
    ELSE VH(results.parts[1], results.holders)

\* createFilter that reads undefined as null
createFilterNullish(key, value) ==
    CASE value.t \in {"null", "undefined"} -> VH(<<Id(key), Kw("IS NULL")>>, <<>>)
      [] value.t \in {"number", "boolean"} ->
           VH(<<Id(key), Kw("="), Q(toSQLHolder(value))>>, <<toSQLHolder(value)>>)
      [] OTHER ->
           OperatorConditions(Collect([i \in 1..Len(Entries(value)) |->
               createOperatorCondition(key, Entries(value)[i].key, Entries(value)[i].value)]))

\* createFilter: the condition of one field of a WHERE or HAVING object
createFilter(key, value) ==
    CASE value.t = "null" -> VH(<<Id(key), Kw("IS NULL")>>, <<>>)
      [] value.t = "undefined" -> VH(<<>>, <<>>)
      [] value.t \in {"number", "boolean"} ->
           VH(<<Id(key), Kw("="), Q(toSQLHolder(value))>>, <<toSQLHolder(value)>>)
      [] OTHER ->
           OperatorConditions(Collect([i \in 1..Len(Entries(value)) |->
               createOperatorCondition(key, Entries(value)[i].key, Entries(value)[i].value)]))

\* createFieldConditions: the fields of an object, joined by AND
createFieldConditions(fields) ==
    Joined(Collect([i \in 1..Len(fields) |-> createFilter(fields[i].key, fields[i].value)]),
           <<Kw("AND")>>)

\* the forms of a WHERE descriptor: none, a raw SQL string, a raw SQL string
\* with its parameters, an object of fields with AND and OR arrays
WAbsent == [t |-> "absent"]
WString(sql) == [t |-> "string", sql |-> sql]
WArray(sql, params) == [t |-> "array", sql |-> sql, params |-> params]
WObject(fields, hasAND, AND, hasOR, OR) ==
    [t |-> "object", fields |-> fields,
     hasAND |-> hasAND, AND |-> AND, hasOR |-> hasOR, OR |-> OR]
WFields(fields) == WObject(fields, FALSE, <<>>, FALSE, <<>>)

\* Object.keys(where).length
KeyCount(where) ==
    Len(where.fields) + (IF where.hasAND THEN 1 ELSE 0) + (IF where.hasOR THEN 1 ELSE 0)

\* `( ${prepare} )`
Bracket(prepare) == <<Kw("(")>> \o prepare \o <<Kw(")")>>

\* createAndConditions: needsBracket
NeedsBracketInAnd(condition) == condition.t = "object" /\ condition.hasOR

\* createOrConditions: needsBracket
NeedsBracketInOr(condition) ==
    condition.t = "object" /\ (KeyCount(condition) > 1 \/ condition.hasAND)

\* a result pushed as a part, bracketed when the list asks for it
Part(result, bracket) ==
    IF result.error = "none" /\ Len(result.prepare) > 0 /\ bracket
    THEN [result EXCEPT !.prepare = Bracket(result.prepare)]
    ELSE result

\* createLogicalWhere: conditions.length > 0 when the OR group is reached
HasConditions(fieldPart, andPart) ==
    \/ fieldPart.error = "none" /\ Len(fieldPart.prepare) > 0
    \/ andPart.error = "none" /\ Len(andPart.prepare) > 0

\* createLogicalWhere: the conditions of the fields, of the AND array and
\* of the OR array, joined by AND
LogicalConditions(fieldPart, andPart, orResult) ==
    Joined(Collect(<<fieldPart, andPart, Part(orResult, HasConditions(fieldPart, andPart))>>),
           <<Kw("AND")>>)

RECURSIVE createWhere(_)
RECURSIVE createLogicalWhere(_)
RECURSIVE createAndConditions(_)
RECURSIVE createOrConditions(_)

\* createWhere: the WHERE condition of a descriptor
createWhere(where) ==
    CASE where.t = "absent" -> VH(<<>>, <<>>)
      [] where.t = "string" -> VH(where.sql, <<>>)
      [] where.t = "array" -> VH(where.sql, where.params)
      [] OTHER -> IF KeyCount(where) = 0 THEN VH(<<>>, <<>>)
                  ELSE createLogicalWhere(where)

\* createLogicalWhere: the fields, then the AND array, then the OR array,
\* which is bracketed when a condition precedes it
createLogicalWhere(where) ==
    LogicalConditions(
        IF Len(where.fields) > 0 THEN createFieldConditions(where.fields) ELSE VH(<<>>, <<>>),
        IF Len(where.AND) > 0 THEN createAndConditions(where.AND) ELSE VH(<<>>, <<>>),
        IF Len(where.OR) > 0 THEN createOrConditions(where.OR) ELSE VH(<<>>, <<>>))

\* createAndConditions: the members of an AND array, joined by AND
createAndConditions(conditions) ==
    Joined(Collect([i \in 1..Len(conditions) |->
               Part(createWhere(conditions[i]), NeedsBracketInAnd(conditions[i]))]),
           <<Kw("AND")>>)

\* createOrConditions: the members of an OR array, joined by OR
createOrConditions(conditions) ==
    Joined(Collect([i \in 1..Len(conditions) |->
               Part(createWhere(conditions[i]), NeedsBracketInOr(conditions[i]))]),
           <<Kw("OR")>>)

\* a literal number written into the text
Lit(n) == [k |-> "lit", n |-> n]

\* the own keys of an object, in insertion order
ObjectKeys(object) == [i \in 1..Len(object) |-> object[i].key]

\* key is one of keys
Includes(keys, key) == \E i \in 1..Len(keys) : keys[i] = key

\* object[key]: the value of the own property, undefined without one
Get(object, key) ==
    IF Includes(ObjectKeys(object), key)
    THEN object[CHOOSE i \in 1..Len(object) : object[i].key = key].value
    ELSE VUndefined

\* createOrder: the ORDER BY list; a direction other than ASC or DESC is skipped
createOrder(order) ==
    LET kept == SelectSeq(order, LAMBDA o : o.value \in {"ASC", "DESC"})
    IN  JoinParts([i \in 1..Len(kept) |-> <<Id(kept[i].key), Kw(kept[i].value)>>],
                  <<Kw(",")>>)

\* the forms of a JOIN definition: the ON condition as a string, or a
\* configuration with type, on and using
JoinString(on) == [t |-> "string", on |-> on]
JoinConfig(type, on, hasUsing, using) ==
    [t |-> "config", type |-> type, on |-> on, hasUsing |-> hasUsing, using |-> using]
ValidTypes == {"INNER", "LEFT", "RIGHT", "FULL", "CROSS"}

\* a JOIN clause written without any check
JoinClauseUnchecked(tableName, joinDef) ==
    IF joinDef.t = "string"
    THEN VH(<<Kw("INNER JOIN"), Id(tableName), Kw("ON")>> \o joinDef.on, <<>>)
    ELSE VH(<<Kw(joinDef.type), Kw("JOIN"), Id(tableName)>> \o joinDef.on, <<>>)

\* createJoin: the clause of one joined table
JoinClause(tableName, joinDef) ==
    IF joinDef.t = "string"
    THEN VH(<<Kw("INNER JOIN"), Id(tableName), Kw("ON")>> \o joinDef.on, <<>>)
    ELSE IF joinDef.type \notin ValidTypes THEN Throw("Invalid JOIN type")
    ELSE IF joinDef.type = "CROSS" THEN VH(<<Kw("CROSS JOIN"), Id(tableName)>>, <<>>)
    ELSE IF joinDef.hasUsing
    THEN IF Len(joinDef.using) = 0
         THEN Throw("JOIN using must be a non-empty array")
         ELSE VH(<<Kw(joinDef.type), Kw("JOIN"), Id(tableName), Kw("USING"), Kw("(")>>
                     \o JoinParts([i \in 1..Len(joinDef.using) |-> <<Id(joinDef.using[i])>>],
                                  <<Kw(",")>>)
                     \o <<Kw(")")>>, <<>>)
    ELSE IF Len(joinDef.on) > 0
    THEN VH(<<Kw(joinDef.type), Kw("JOIN"), Id(tableName), Kw("ON")>> \o joinDef.on, <<>>)
    ELSE Throw("JOIN requires either on or using")

\* createJoin: the JOIN clauses of the tables of join, in order
createJoin(join) ==
    Joined(Collect([i \in 1..Len(join) |-> JoinClause(join[i].key, join[i].value)]), <<>>)

\* createGroupBy: the GROUP BY list of an array of fields
createGroupBy(groupBy) ==
    JoinParts([i \in 1..Len(groupBy) |-> <<Id(groupBy[i])>>], <<Kw(",")>>)

\* createHaving: as createWhere, but an object has fields only
createHaving(having) ==
    CASE having.t = "absent" -> VH(<<>>, <<>>)
      [] having.t = "string" -> VH(having.sql, <<>>)
      [] having.t = "array" -> VH(having.sql, having.params)
      [] OTHER -> createFieldConditions(having.fields)

\* buildLimitOffset of the MySQL dialect
buildLimitOffset(limit, offset) ==
    IF offset > 0 THEN <<Kw("LIMIT"), Lit(offset), Kw(","), Lit(limit)>>
    ELSE <<Kw("LIMIT"), Lit(limit)>>

\* the parameters of a statement builder, with the defaults of a call that
\* gives none
NoParams ==
    [data |-> <<>>, where |-> WAbsent, order |-> <<>>, limit |-> 0, offset |-> 0,
     join |-> <<>>, groupBy |-> <<>>, having |-> WAbsent,
     uniqueKeys |-> <<>>, hasUpdateData |-> FALSE, updateData |-> <<>>]

\* sql += ` KEYWORD ${result.prepare}` and holders.push(...result.holders),
\* both only for a fragment that is not empty
Clause(keyword, result) ==
    IF Len(result.prepare) > 0
    THEN [result EXCEPT !.prepare = keyword \o result.prepare]
    ELSE [result EXCEPT !.holders = <<>>]

\* a statement of a head and clauses: the first error thrown while the
\* clauses are compiled in order, else the text and the holders appended in
\* that order
Statement(head, clauses) == Joined(Collect(<<VH(head, <<>>)>> \o clauses), <<>>)

TableName == "t"

\* buildSelect: the clauses after SELECT ... FROM table, in the order of
\* the text
SelectClauses(params) ==
    << createJoin(params.join),
       Clause(<<Kw("WHERE")>>, createWhere(params.where)),
       Clause(<<Kw("GROUP BY")>>, VH(createGroupBy(params.groupBy), <<>>)),
       Clause(<<Kw("HAVING")>>, createHaving(params.having)),
       Clause(<<Kw("ORDER BY")>>, VH(createOrder(params.order), <<>>)),
       VH(IF params.limit > 0
          THEN buildLimitOffset(params.limit, params.offset) ELSE <<>>, <<>>) >>

\* a statement whose holders are those of HAVING, then those of WHERE
HavingFirst(made, clauses) ==
    IF made.error # "none" THEN made
    ELSE [made EXCEPT !.holders = clauses[4].holders \o clauses[2].holders]

buildSelectHavingFirst(params) ==
    HavingFirst(Statement(<<Kw("SELECT"), Kw("*"), Kw("FROM"), Id(TableName)>>,
                          SelectClauses(params)),
                SelectClauses(params))

\* buildSelect
buildSelect(params) ==
    Statement(<<Kw("SELECT"), Kw("*"), Kw("FROM"), Id(TableName)>>, SelectClauses(params))

\* buildInsert: the fields of the first row, one placeholder and one holder
\* for each field of each row
buildInsert(params) ==
    LET data == params.data
        fields == ObjectKeys(data[1])
        valueSet(row) ==
            VH(Bracket(JoinParts([j \in 1..Len(fields) |->
                                     <<Q(toSQLHolder(Get(row, fields[j])))>>], <<Kw(",")>>)),
               [j \in 1..Len(fields) |-> toSQLHolder(Get(row, fields[j]))])
        sets == Collect([i \in 1..Len(data) |-> valueSet(data[i])])
    IN  IF Len(data) = 0 THEN Throw("Insert data cannot be empty")
        ELSE VH(<<Kw("INSERT INTO"), Id(TableName)>>
                    \o Bracket(JoinParts([j \in 1..Len(fields) |-> <<Id(fields[j])>>],
                                         <<Kw(",")>>))
                    \o <<Kw("VALUES")>> \o JoinParts(sets.parts, <<Kw(",")>>),
                sets.holders)

\* buildUpdate: the assignments, then WHERE, ORDER BY and LIMIT; no
\* assignment is an error thrown before the WHERE condition is compiled
buildUpdate(params) ==
    LET data == params.data
        parts == Joined(Collect([i \in 1..Len(data) |->
                            createDataFilter(data[i].key, data[i].value)]), <<Kw(",")>>)
    IN  IF Len(parts.prepare) = 0 THEN Throw("No fields to update")
        ELSE Statement(<<Kw("UPDATE"), Id(TableName)>>,
                 << Clause(<<Kw("SET")>>, parts),
                    Clause(<<Kw("WHERE")>>, createWhere(params.where)),
                    Clause(<<Kw("ORDER BY")>>, VH(createOrder(params.order), <<>>)),
                    VH(IF params.limit > 0 THEN <<Kw("LIMIT"), Lit(params.limit)>> ELSE <<>>,
                       <<>>) >>)

\* buildDelete
buildDelete(params) ==
    Statement(<<Kw("DELETE FROM"), Id(TableName)>>,
              << Clause(<<Kw("WHERE")>>, createWhere(params.where)),
                 Clause(<<Kw("ORDER BY")>>, VH(createOrder(params.order), <<>>)),
                 VH(IF params.limit > 0 THEN <<Kw("LIMIT"), Lit(params.limit)>> ELSE <<>>,
                    <<>>) >>)

\* buildCount
buildCount(params) ==
    Statement(<<Kw("SELECT COUNT(*) as"), Id("total_num"), Kw("FROM"), Id(TableName)>>,
              << createJoin(params.join),
                 Clause(<<Kw("WHERE")>>, createWhere(params.where)),
                 Clause(<<Kw("GROUP BY")>>, VH(createGroupBy(params.groupBy), <<>>)),
                 Clause(<<Kw("HAVING")>>, createHaving(params.having)) >>)

\* buildExists
buildExists(params) ==
    Statement(<<Kw("SELECT 1 FROM"), Id(TableName)>>,
              << Clause(<<Kw("WHERE")>>, createWhere(params.where)),
                 VH(<<Kw("LIMIT"), Lit(1)>>, <<>>) >>)

\* buildUpsert: INSERT ... ON DUPLICATE KEY UPDATE over the fields of
\* updateData (of data without one) that are not unique keys
buildUpsert(params) ==
    LET data == params.data
        updateFields == IF params.hasUpdateData THEN params.updateData ELSE data
        updates == SelectSeq(updateFields, LAMBDA f : ~Includes(params.uniqueKeys, f.key))
        insertHolders == [i \in 1..Len(data) |-> toSQLHolder(data[i].value)]
        updateHolders == [i \in 1..Len(updates) |-> toSQLHolder(updates[i].value)]
    IN  VH(<<Kw("INSERT INTO"), Id(TableName)>>
               \o Bracket(JoinParts([i \in 1..Len(data) |-> <<Id(data[i].key)>>], <<Kw(",")>>))
               \o <<Kw("VALUES")>>
               \o Bracket(JoinParts([i \in 1..Len(data) |-> <<Q(insertHolders[i])>>],
                                    <<Kw(",")>>))
               \o (IF Len(updates) > 0
                   THEN <<Kw("ON DUPLICATE KEY UPDATE")>>
                        \o JoinParts([i \in 1..Len(updates) |->
                                         <<Id(updates[i].key), Kw("="), Q(updateHolders[i])>>],
                                     <<Kw(",")>>)
                   ELSE <<>>),
           insertHolders \o updateHolders)

(***************************************************************************)
(* Table: the result of the last operation                                 *)
(***************************************************************************)
MutatingKinds == {"add", "adds", "update", "remove", "upsert"}
ReadKinds == {"get", "gets", "count", "exists"}

\* _lastOperationResult before any operation
NoResult == [type |-> "undefined", affectedRows |-> 0, action |-> "none"]

\* the type each operation stores
OperationType(kind) ==
    CASE kind \in {"add", "adds"} -> "insert"
      [] kind = "update" -> "update"
      [] kind = "remove" -> "delete"
      [] kind = "upsert" -> "upsert"

\* a result whose upsert action is update only for two affected rows
OperationResultByTwo(kind, a) ==
    [type |-> OperationType(kind), affectedRows |-> a,
     action |-> IF kind = "upsert"
                THEN (IF a = 2 THEN "update" ELSE "insert")
                ELSE "none"]

\* the OperationResult an operation stores for the affected-row count a;
\* upsert: action = affectedRows === 1 ? 'insert' : 'update'
OperationResult(kind, a) ==
    [type |-> OperationType(kind), affectedRows |-> a,
     action |-> IF kind = "upsert"
                THEN (IF a = 1 THEN "insert" ELSE "update")
                ELSE "none"]

\* an assignment that keeps a result already stored
SaveResultOnce(slot, result) == IF slot = NoResult THEN result ELSE slot

\* this._lastOperationResult = { ... }
SaveResult(slot, result) == result

\* the own keys of the rows of the model, in the order sort() gives them
KeyOrder == <<"a", "b", "c">>

\* Object.keys(row).sort()
SortedKeys(row) == SelectSeq(KeyOrder, LAMBDA key : Includes(ObjectKeys(row), key))

\* the properties every object inherits from Object.prototype
InheritedKeys == {"constructor"}

\* key in object: an own or an inherited property
In(key, object) == Includes(ObjectKeys(object), key) \/ key \in InheritedKeys

\* a thrown Error of adds that names the index of a record
ThrowAt(message, index) ==
    [error |-> message, prepare |-> <<>>, holders |-> <<>>, index |-> index]

\* the loop of adds that goes on after a record that differs
LastDiffering(differing) == CHOOSE i \in differing : \A j \in differing : j <= i

\* the loop of adds stops at the first record that differs
FirstDiffering(differing) == CHOOSE i \in differing : \A j \in differing : i <= j

\* adds, up to its await of the driver; indices count from 0
addsPrepare(data) ==
    LET differing == {i \in 1..(Len(data) - 1) :
                         SortedKeys(data[i + 1]) # SortedKeys(data[1])}
    IN  IF Len(data) = 0
        THEN Throw("Parameter error, data must be an array with length >= 1")
        ELSE IF differing # {}
        THEN ThrowAt("Record at index has different fields", FirstDiffering(differing))
        ELSE buildInsert([NoParams EXCEPT !.data = data])

\* upsert, up to its await of the driver
upsertPrepare(params) ==
    IF Len(params.uniqueKeys) = 0
    THEN Throw("uniqueKeys is required for upsert operation")
    ELSE IF \E i \in 1..Len(params.uniqueKeys) : ~In(params.uniqueKeys[i], params.data)
    THEN Throw("uniqueKey not found in data")
    ELSE buildUpsert(params)

\* an operation of the Table, up to its await of the driver: the statement
\* it compiled, or the error thrown before one was sent. add(data) is
\* adds([data]); get(params) is gets with limit 1
Prepare(kind, params) ==
    CASE kind = "add" -> addsPrepare(<<params.data>>)
      [] kind = "adds" -> addsPrepare(params.data)
      [] kind = "update" -> buildUpdate(params)
      [] kind = "remove" -> buildDelete(params)
      [] kind = "upsert" -> upsertPrepare(params)
      [] kind = "get" -> buildSelect([params EXCEPT !.limit = 1, !.offset = 0])
      [] kind = "gets" -> buildSelect(params)
      [] kind = "count" -> buildCount(params)
      [] kind = "exists" -> buildExists(params)

\* data.length of add and adds
DataLength(kind, params) ==
    CASE kind = "add" -> 1
      [] kind = "adds" -> Len(params.data)
      [] OTHER -> 0

\* a catch block of update that rethrows every error
CatchesNothing(kind, error) == FALSE

\* the catch block of update: error.message === 'No fields to update'
CatchesNoFields(kind, error) == kind = "update" /\ error = "No fields to update"

\* a row of the model with the given keys
Row(keys) == [i \in 1..Len(keys) |-> Prop(keys[i], VNum(i))]

\* the arguments of the calls of concurrent callers: a batch of 0 to MaxRows
\* rows, an update with and without a field to update, an upsert with and
\* without uniqueKeys
TableArgs(kind) ==
    CASE kind = "add" -> {[NoParams EXCEPT !.data = Row(<<"a">>)]}
      [] kind = "adds" ->
           {[NoParams EXCEPT !.data = [i \in 1..n |-> Row(<<"a">>)]] : n \in 0..MaxRows}
      [] kind = "update" ->
           {[NoParams EXCEPT !.data = <<Prop("a", v)>>] : v \in {VNum(1), VUndefined}}
      [] kind = "upsert" ->
           {[NoParams EXCEPT !.data = Row(<<"a">>), !.uniqueKeys = u] : u \in {<<>>, <<"a">>}}
      [] OTHER -> {NoParams}

\* a piece of raw SQL of the caller that holds no placeholder and no
\* logical operator
Raw(s) == [k |-> "raw", s |-> s]

\* the rows of a batch of one caller: fields a and b in either order, or a
\* alone
FacadeRows == {Row(<<"a">>), Row(<<"a", "b">>), Row(<<"b", "a">>)}

\* the batches of 0 to MaxBatch rows
RECURSIVE Batches(_)
Batches(n) ==
    IF n = 0 THEN {<<>>}
    ELSE Batches(n - 1) \cup
         {Append(batch, row) : batch \in {b \in Batches(n - 1) : Len(b) = n - 1},
                               row \in FacadeRows}

\* the values of a field of update: no value, NULL, literals, objects with
\* no operator, an unknown operator, a known one, an unknown one first
UpdateValues ==
    {VUndefined, VNull, VNum(1), VBool(TRUE), VObject(<<>>),
     VObject(<<Prop("bogus", VNum(1))>>),
     VObject(<<Prop("increment", VNum(1))>>),
     VObject(<<Prop("bogus", VNum(1)), Prop("set", VNum(2))>>)}

\* the data of update: no field, field a, fields a and b
UpdateData ==
    {<<>>} \cup {<<Prop("a", v)>> : v \in UpdateValues}
           \cup {<<Prop("a", v), Prop("b", w)>> :
                     v \in UpdateValues, w \in {VUndefined, VNum(2), VObject(<<>>)}}

\* WHERE descriptors of one caller: none, a field, a field without value,
\* a range operator with one value
FacadeWheres ==
    {WAbsent, WFields(<<Prop("a", VNum(1))>>), WFields(<<Prop("a", VUndefined)>>),
     WFields(<<Prop("a", VObject(<<Prop("between", VArray(<<VNum(1)>>))>>))>>)}

\* JOIN definitions of one caller: none, an ON string, LEFT with ON, USING,
\* CROSS, and neither ON nor USING, an empty USING, an unknown type
FacadeJoins ==
    {<<>>,
     <<Prop("u", JoinString(<<Raw("t.id = u.id")>>))>>,
     <<Prop("u", JoinConfig("LEFT", <<Raw("t.id = u.id")>>, FALSE, <<>>))>>,
     <<Prop("u", JoinConfig("INNER", <<>>, TRUE, <<"id">>))>>,
     <<Prop("u", JoinConfig("CROSS", <<>>, FALSE, <<>>))>>,
     <<Prop("u", JoinConfig("LEFT", <<>>, FALSE, <<>>))>>,
     <<Prop("u", JoinConfig("INNER", <<>>, TRUE, <<>>))>>,
     <<Prop("u", JoinConfig("OUTER", <<Raw("t.id = u.id")>>, FALSE, <<>>))>>}

\* uniqueKeys of upsert: none, own fields, a name that is no property, a
\* name every object inherits
FacadeUniqueKeys ==
    {<<>>, <<"a">>, <<"a", "b">>, <<"c">>, <<"a", "c">>, <<"constructor">>}

\* the arguments of the calls of one caller
FacadeArgs(kind) ==
    CASE kind = "add" -> {[NoParams EXCEPT !.data = row] : row \in FacadeRows}
      [] kind = "adds" -> {[NoParams EXCEPT !.data = batch] : batch \in Batches(MaxBatch)}
      [] kind = "update" ->
           {[NoParams EXCEPT !.data = data, !.where = where] :
                data \in UpdateData, where \in FacadeWheres}
      [] kind = "upsert" ->
           {[NoParams EXCEPT !.data = data, !.uniqueKeys = u] :
                data \in {Row(<<"a">>), Row(<<"a", "b">>)}, u \in FacadeUniqueKeys}
      [] kind \in {"remove", "exists"} ->
           {[NoParams EXCEPT !.where = where] : where \in FacadeWheres}
      [] OTHER ->
           {[NoParams EXCEPT !.where = where, !.join = join] :
                where \in FacadeWheres, join \in FacadeJoins}

NoStatement == [error |-> "none", prepare |-> <<>>, holders |-> <<>>]
NoTableCall ==
    [kind |-> "none", len |-> 0, executed |-> FALSE, affectedRows |-> 0,
     params |-> NoParams, statement |-> NoStatement, sent |-> 0]
NoTableRes == [st |-> "none", error |-> "none", index |-> 0]

TableEnds(q, st) ==
    /\ tpc' = [tpc EXCEPT ![q] = "done"]
    /\ tres' = [tres EXCEPT ![q] =
                   [st |-> st, error |-> IF st = "ok" THEN "none" ELSE "driver", index |-> 0]]

\* the call throws the error of made
TableThrows(q, made) ==
    /\ tpc' = [tpc EXCEPT ![q] = "done"]
    /\ tres' = [tres EXCEPT ![q] =
                   [st |-> "err", error |-> made.error,
                    index |-> IF "index" \in DOMAIN made THEN made.index ELSE 0]]

\* a call on the Table after it compiled made, or threw it, up to its
\* await of the driver
TableCompiled(q, kind, params, made) ==
    /\ tpc[q] = "idle" /\ tn < MaxTableCalls
    /\ tn' = tn + 1
    /\ tloc' = [tloc EXCEPT ![q] =
                   [NoTableCall EXCEPT !.kind = kind,
                                       !.len = DataLength(kind, params),
                                       !.params = params,
                                       !.statement = made,
                                       !.sent = IF made.error = "none" THEN 1 ELSE 0]]
    /\ IF made.error = "none"
       THEN \* driver.execute or driver.query is called with the statement
            /\ tpc' = [tpc EXCEPT ![q] =
                          IF kind \in MutatingKinds THEN "execute" ELSE "query"]
            /\ tres' = [tres EXCEPT ![q] = NoTableRes]
            /\ UNCHANGED lastOperationResult
       ELSE IF CatchesNoFields(kind, made.error)
       THEN \* buildUpdate throws 'No fields to update': a successful no-op
            /\ lastOperationResult' =
                   SaveResult(lastOperationResult, OperationResult(kind, 0))
            /\ TableEnds(q, "ok")
       ELSE /\ TableThrows(q, made)
            /\ UNCHANGED lastOperationResult

\* a call on the Table, up to its await of the driver
TableCall(q, kind, params) == TableCompiled(q, kind, params, Prepare(kind, params))

\* driver.execute fails: the error is thrown as it is
ExecuteFails(q) ==
    /\ tpc[q] = "execute"
    /\ TableEnds(q, "err")
    /\ UNCHANGED <<lastOperationResult, tloc, tn>>

\* an adds that is content with any row inserted
SomeInserted(affectedRows, length) == affectedRows > 0

\* adds: result.affectedRows !== data.length is an error
AllInserted(affectedRows, length) == affectedRows = length

\* driver.execute gives a result header with affectedRows = a
ExecuteDone(q, a) ==
    LET kind == tloc[q].kind
    IN  /\ tpc[q] = "execute"
        /\ tloc' = [tloc EXCEPT ![q].executed = TRUE, ![q].affectedRows = a]
        /\ IF kind \in {"add", "adds"} /\ ~AllInserted(a, tloc[q].len)
           THEN /\ TableThrows(q, Throw("Expected to insert rows but only some were affected"))
                /\ UNCHANGED lastOperationResult
           ELSE /\ lastOperationResult' =
                       SaveResult(lastOperationResult, OperationResult(kind, a))
                /\ TableEnds(q, "ok")
        /\ UNCHANGED tn

\* driver.query of get/gets/count/exists settles
QueryDone(q, ok) ==
    /\ tpc[q] = "query"
    /\ TableEnds(q, IF ok THEN "ok" ELSE "err")
    /\ UNCHANGED <<lastOperationResult, tloc, tn>>

\* the caller takes the outcome and is free for its next Table call
TableResume(q) ==
    /\ tpc[q] = "done" /\ tn < MaxTableCalls
    /\ tpc' = [tpc EXCEPT ![q] = "idle"]
    /\ tloc' = [tloc EXCEPT ![q] = NoTableCall]
    /\ tres' = [tres EXCEPT ![q] = NoTableRes]
    /\ UNCHANGED <<lastOperationResult, tn>>

InitTable ==
    /\ lastOperationResult = NoResult
    /\ tpc = [q \in DCallers |-> "idle"]
    /\ tloc = [q \in DCallers |-> NoTableCall]
    /\ tres = [q \in DCallers |-> NoTableRes]
    /\ tn = 0

(***************************************************************************)
(* The statement builders applied to descriptors                           *)
(***************************************************************************)
Builders == {"select", "insert", "update", "delete", "count", "exists", "upsert"}

\* the builder of the dialect of that name
Builder(builder, params) ==
    CASE builder = "select" -> buildSelect(params)
      [] builder = "insert" -> buildInsert(params)
      [] builder = "update" -> buildUpdate(params)
      [] builder = "delete" -> buildDelete(params)
      [] builder = "count" -> buildCount(params)
      [] builder = "exists" -> buildExists(params)
      [] builder = "upsert" -> buildUpsert(params)

\* an object with one operator
Operator(operator, value) == VObject(<<Prop(operator, value)>>)

\* the array of the numbers n+1 .. n+len
Numbers(n, len) == VArray([i \in 1..len |-> VNum(n + i)])

RangeOperators == {"in", "notIn", "between", "notBetween"}

\* the arguments given to a range operator: a number, arrays of 0 to
\* MaxValues numbers, an array with a boolean
RangeArguments(n) ==
    {VNum(n), VArray(<<VBool(TRUE), VNum(n)>>)} \cup {Numbers(n, len) : len \in 0..MaxValues}

\* the values of a field of a WHERE or HAVING object, with numbers above n
FieldValues(n) ==
    {VNum(n), VBool(TRUE), VNull, VUndefined,
     Operator("eq", VNum(n)), Operator("like", VNum(n)), Operator("ne", VBool(FALSE)),
     VObject(<<Prop("gt", VNum(n)), Prop("lt", VNum(n + 1))>>),
     Operator("isNull", VBool(TRUE)), Operator("isNull", VBool(FALSE)),
     Operator("bogus", VNum(n)), VObject(<<>>)}
    \cup {Operator(operator, value) : operator \in RangeOperators, value \in RangeArguments(n)}

\* objects of one or two fields
FlatWheres ==
    {WFields(<<Prop("a", v)>>) : v \in FieldValues(10)}
    \cup {WFields(<<Prop("a", v), Prop("b", w)>>) :
              v \in FieldValues(10),
              w \in {VNum(20), VUndefined, Operator("in", Numbers(20, 2))}}

\* raw fragments: without placeholder, with as many placeholders as
\* parameters, with a placeholder too many, with a parameter too many
RawWheres ==
    {WString(<<Raw("p")>>),
     WString(<<Raw("p"), Kw("OR"), Raw("q")>>),
     WArray(<<Raw("x ="), Q(VNum(30))>>, <<VNum(30)>>),
     WArray(<<Raw("x ="), Q(VNum(30)), Kw("OR"), Raw("y ="), Q(VNum(31))>>,
            <<VNum(30), VNum(31)>>),
     WString(<<Raw("x ="), Q(VUndefined)>>),
     WArray(<<Raw("x ="), Q(VNum(30)), Kw("AND"), Raw("y ="), Q(VUndefined)>>, <<VNum(30)>>),
     WArray(<<Raw("p")>>, <<VNum(30)>>)}

\* the simplest members of an AND or OR array
PlainMembers ==
    {WFields(<<Prop("c", VNum(3))>>), WFields(<<Prop("d", VNum(4))>>)}

\* the members of an AND or OR array: objects of one and of two fields, of
\* an OR array, of an AND array, of a field and an OR array, raw fragments
\* with and without OR, an object without condition, a malformed one
Members ==
    PlainMembers \cup
    {WFields(<<Prop("c", VNum(3)), Prop("d", VNum(4))>>),
     WObject(<<>>, FALSE, <<>>, TRUE,
             <<WFields(<<Prop("e", VNum(5))>>), WFields(<<Prop("f", VNum(6))>>)>>),
     WObject(<<>>, TRUE,
             <<WFields(<<Prop("e", VNum(5))>>), WFields(<<Prop("f", VNum(6))>>)>>,
             FALSE, <<>>),
     WObject(<<Prop("e", VNum(5))>>, FALSE, <<>>, TRUE,
             <<WFields(<<Prop("f", VNum(6))>>), WString(<<Raw("q")>>)>>),
     WString(<<Raw("p")>>),
     WString(<<Raw("p"), Kw("OR"), Raw("q")>>),
     WArray(<<Raw("x ="), Q(VNum(30)), Kw("OR"), Raw("y ="), Q(VNum(31))>>,
            <<VNum(30), VNum(31)>>),
     WFields(<<Prop("u", VUndefined)>>),
     WFields(<<Prop("c", Operator("between", Numbers(3, 1)))>>)}

\* AND and OR arrays: none, one member, two members
MemberArrays ==
    {<<>>} \cup {<<m>> : m \in Members} \cup {<<m, n>> : m \in Members, n \in PlainMembers}

\* objects with AND and OR arrays
LogicalWheres ==
    {WObject(fields, Len(and) > 0, and, Len(or) > 0, or) :
         fields \in {<<>>, <<Prop("a", VNum(10))>>, <<Prop("a", VUndefined)>>,
                     <<Prop("a", VObject(<<Prop("gt", VNum(10)), Prop("lt", VNum(11))>>))>>},
         and \in MemberArrays, or \in MemberArrays}

\* a few descriptors of each form
SomeWheres ==
    {WAbsent, WFields(<<Prop("a", VNum(10))>>), WFields(<<Prop("a", VUndefined)>>),
     WFields(<<Prop("a", Operator("in", Numbers(10, 2)))>>),
     WArray(<<Raw("x ="), Q(VNum(30))>>, <<VNum(30)>>),
     WArray(<<Raw("x ="), Q(VNum(30)), Kw("AND"), Raw("y ="), Q(VUndefined)>>, <<VNum(30)>>),
     WString(<<Raw("x ="), Q(VUndefined)>>)}

\* HAVING descriptors
Havings ==
    {WAbsent, WFields(<<Prop("h", VNum(40))>>), WFields(<<Prop("h", VUndefined)>>),
     WFields(<<Prop("h", Operator("between", Numbers(40, 2)))>>),
     WArray(<<Raw("COUNT(*) >"), Q(VNum(43))>>, <<VNum(43)>>),
     WString(<<Raw("COUNT(*) > 1")>>)}

\* JOIN definitions whose ON string holds no placeholder, or one
CompileJoins ==
    {<<>>, <<Prop("u", JoinString(<<Raw("t.id = u.id")>>))>>,
     <<Prop("u", JoinConfig("LEFT", <<Raw("u.k ="), Q(VUndefined)>>, FALSE, <<>>))>>}

\* the parameters each builder is applied to
BuilderParams(builder) ==
    CASE builder = "select" ->
           {[NoParams EXCEPT !.where = where] :
                where \in LogicalWheres \cup FlatWheres \cup RawWheres}
           \cup {[NoParams EXCEPT !.where = where, !.having = having, !.join = join,
                                  !.groupBy = <<"g">>, !.order = o.order,
                                  !.limit = o.limit, !.offset = o.offset] :
                     where \in SomeWheres, having \in Havings, join \in CompileJoins,
                     o \in {[order |-> <<>>, limit |-> 0, offset |-> 0],
                            [order |-> <<Prop("a", "DESC"), Prop("b", "up")>>,
                             limit |-> 2, offset |-> 1]}}
      [] builder = "count" ->
           {[NoParams EXCEPT !.where = where, !.having = having, !.join = join] :
                where \in SomeWheres, having \in Havings, join \in CompileJoins}
      [] builder \in {"delete", "exists"} ->
           {[NoParams EXCEPT !.where = where] :
                where \in {WAbsent} \cup FlatWheres \cup RawWheres}
      [] builder = "update" ->
           {[NoParams EXCEPT !.data = data, !.where = where] :
                data \in UpdateData, where \in SomeWheres}
      [] builder = "insert" ->
           {[NoParams EXCEPT !.data = batch] : batch \in Batches(MaxBatch)}
      [] builder = "upsert" ->
           {[NoParams EXCEPT !.data = data, !.uniqueKeys = u,
                             !.hasUpdateData = Len(updateData) > 0,
                             !.updateData = updateData] :
                data \in {<<Prop("a", VNum(1))>>, <<Prop("a", VBool(TRUE)), Prop("b", VNum(2))>>},
                u \in {<<"a">>, <<"a", "b">>, <<"b">>},
                updateData \in {<<>>, <<Prop("b", VNum(5))>>,
                                <<Prop("a", VNum(6)), Prop("b", VBool(FALSE))>>,
                                <<Prop("b", Operator("increment", VNum(1)))>>,
                                <<Prop("a", VNum(6)), Prop("b", Operator("multiply", VNum(2)))>>}}

NoCompiled == [builder |-> "none", params |-> NoParams, statement |-> NoStatement]

\* one application of a builder to parameters
Build(builder, params) ==
    /\ compiled = NoCompiled
    /\ compiled' = [builder |-> builder, params |-> params,
                    statement |-> Builder(builder, params)]

InitCompile == compiled = NoCompiled

Init == InitLock /\ InitTtl /\ InitDriver /\ InitDb /\ InitTable /\ InitCompile

\* the lease lock while its processes run: safeRun calls, their renewal
\* timers and their environment
Next ==
    \/ \E p \in Callers : \E k \in CallerKeys(p), c \in CallerCaches(p),
                             ar \in CallerAutoRenew(p) :
           SafeRun(p, k, c, ar) /\ UNCHANGED <<ttlVars, driverVars, dbVars, tableVars, compileVars>>
    \/ \E a \in Agents : RedisRetry(a) /\ UNCHANGED <<ttlVars, driverVars, dbVars, tableVars, compileVars>>
    \/ \E p \in Callers : AcquireDone(p) /\ UNCHANGED <<ttlVars, driverVars, dbVars, tableVars, compileVars>>
    \/ \E p \in Callers : \E threw \in CallerTaskThrows(p) :
           TaskSettles(p, threw) /\ UNCHANGED <<ttlVars, driverVars, dbVars, tableVars, compileVars>>
    \/ \E p \in Callers : ReleaseDone(p) /\ UNCHANGED <<ttlVars, driverVars, dbVars, tableVars, compileVars>>
    \/ \E p \in Callers : TimerFire(p) /\ UNCHANGED <<ttlVars, driverVars, dbVars, tableVars, compileVars>>
    \/ \E p \in Callers : TimerDone(p) /\ UNCHANGED <<ttlVars, driverVars, dbVars, tableVars, compileVars>>
    \/ NetDown /\ UNCHANGED <<ttlVars, driverVars, dbVars, tableVars, compileVars>>
    \/ NetUp /\ UNCHANGED <<ttlVars, driverVars, dbVars, tableVars, compileVars>>
    \/ \E c \in Caches, k \in Keys : Age(c, k) /\ UNCHANGED <<ttlVars, driverVars, dbVars, tableVars, compileVars>>
    \/ \E c \in Caches, k \in Keys : Expire(c, k) /\ UNCHANGED <<ttlVars, driverVars, dbVars, tableVars, compileVars>>

Spec == Init /\ [][Next]_vars

\* the lease lock of one process that is also torn down
InitShutdown == Init /\ \A p \in Callers : cproc[p] = "P1"

NextShutdown ==
    \/ \E p \in Callers : \E k \in CallerKeys(p), c \in CallerCaches(p),
                             ar \in CallerAutoRenew(p) :
           SafeRun(p, k, c, ar) /\ UNCHANGED <<ttlVars, driverVars, dbVars, tableVars, compileVars>>
    \/ \E a \in Agents : RedisRetry(a) /\ UNCHANGED <<ttlVars, driverVars, dbVars, tableVars, compileVars>>
    \/ \E p \in Callers : AcquireDone(p) /\ UNCHANGED <<ttlVars, driverVars, dbVars, tableVars, compileVars>>
    \/ \E p \in Callers : \E threw \in CallerTaskThrows(p) :
           TaskSettles(p, threw) /\ UNCHANGED <<ttlVars, driverVars, dbVars, tableVars, compileVars>>
    \/ \E p \in Callers : ReleaseDone(p) /\ UNCHANGED <<ttlVars, driverVars, dbVars, tableVars, compileVars>>
    \/ \E p \in Callers : TimerFire(p) /\ UNCHANGED <<ttlVars, driverVars, dbVars, tableVars, compileVars>>
    \/ \E p \in Callers : TimerDone(p) /\ UNCHANGED <<ttlVars, driverVars, dbVars, tableVars, compileVars>>
    \/ NetDown /\ UNCHANGED <<ttlVars, driverVars, dbVars, tableVars, compileVars>>
    \/ NetUp /\ UNCHANGED <<ttlVars, driverVars, dbVars, tableVars, compileVars>>
    \/ \E c \in Caches, k \in Keys : Age(c, k) /\ UNCHANGED <<ttlVars, driverVars, dbVars, tableVars, compileVars>>
    \/ \E c \in Caches, k \in Keys : Expire(c, k) /\ UNCHANGED <<ttlVars, driverVars, dbVars, tableVars, compileVars>>
    \/ \E pr \in Procs : DestroyBegin(pr) /\ UNCHANGED <<ttlVars, driverVars, dbVars, tableVars, compileVars>>
    \/ \E pr \in Procs : DestroyNext(pr) /\ UNCHANGED <<ttlVars, driverVars, dbVars, tableVars, compileVars>>

SpecShutdown == InitShutdown /\ [][NextShutdown]_vars

\* the TTL normalisation alone
NextTtl ==
    \E t \in TtlOptions, r \in RatioOptions : SafeRunTtl(t, r) /\ UNCHANGED <<lockVars, driverVars, dbVars, tableVars, compileVars>>

SpecTtl == Init /\ [][NextTtl]_vars

\* the steps a driver call in flight takes by itself
Progress(q) ==
    /\ \/ \E r \in Outcomes : Settle(q, r)
       \/ \E r \in Outcomes : SettleTx(q, r)
       \/ DelayDone(q)
       \/ RebuildDone(q)
       \/ RebuildJoined(q)
       \/ \E r \in Outcomes : GetConnectionDone(q, r)
       \/ \E r \in Outcomes : BeginTransactionDone(q, r)
       \/ \E r \in Outcomes : EndTransactionDone(q, r)
    /\ UNCHANGED <<lockVars, ttlVars, dbVars, tableVars, compileVars>>

\* the driver alone
NextDriver ==
    \/ \E q \in DCallers, kind \in QueryKinds :
           DriverCall(q, kind) /\ UNCHANGED <<lockVars, ttlVars, dbVars, tableVars, compileVars>>
    \/ \E q \in DCallers, r \in Outcomes :
           Settle(q, r) /\ UNCHANGED <<lockVars, ttlVars, dbVars, tableVars, compileVars>>
    \/ \E q \in DCallers, r \in Outcomes :
           SettleTx(q, r) /\ UNCHANGED <<lockVars, ttlVars, dbVars, tableVars, compileVars>>
    \/ \E q \in DCallers : DelayDone(q) /\ UNCHANGED <<lockVars, ttlVars, dbVars, tableVars, compileVars>>
    \/ \E q \in DCallers : RebuildDone(q) /\ UNCHANGED <<lockVars, ttlVars, dbVars, tableVars, compileVars>>
    \/ \E q \in DCallers : RebuildJoined(q) /\ UNCHANGED <<lockVars, ttlVars, dbVars, tableVars, compileVars>>
    \/ \E q \in DCallers : Begin(q) /\ UNCHANGED <<lockVars, ttlVars, dbVars, tableVars, compileVars>>
    \/ \E q \in DCallers, r \in Outcomes :
           GetConnectionDone(q, r) /\ UNCHANGED <<lockVars, ttlVars, dbVars, tableVars, compileVars>>
    \/ \E q \in DCallers, r \in Outcomes :
           BeginTransactionDone(q, r) /\ UNCHANGED <<lockVars, ttlVars, dbVars, tableVars, compileVars>>
    \/ \E q \in DCallers, kind \in EndKinds :
           EndTransaction(q, kind) /\ UNCHANGED <<lockVars, ttlVars, dbVars, tableVars, compileVars>>
    \/ \E q \in DCallers, r \in Outcomes :
           EndTransactionDone(q, r) /\ UNCHANGED <<lockVars, ttlVars, dbVars, tableVars, compileVars>>
    \/ \E q \in DCallers : Resume(q) /\ UNCHANGED <<lockVars, ttlVars, dbVars, tableVars, compileVars>>

\* every awaited operation, delay and rebuild settles
SpecDriver ==
    InitShutdown /\ [][NextDriver]_vars /\ \A q \in DCallers : WF_vars(Progress(q))

\* Database.create calls and table calls on the instances they returned
NextDb ==
    \/ \E config \in Configs, type \in DatabaseTypes :
           Create(config, type) /\ UNCHANGED <<lockVars, ttlVars, driverVars, tableVars, compileVars>>
    \/ \E db \in {e.db : e \in created}, name \in TableNames :
           TableOf(db, name) /\ UNCHANGED <<lockVars, ttlVars, driverVars, tableVars, compileVars>>

SpecDb == InitShutdown /\ [][NextDb]_vars

\* the callers of one Table
NextTable ==
    \/ \E q \in DCallers, kind \in MutatingKinds \cup ReadKinds :
         \E args \in TableArgs(kind) :
           TableCall(q, kind, args) /\ UNCHANGED <<lockVars, ttlVars, driverVars, dbVars, compileVars>>
    \/ \E q \in DCallers :
           ExecuteFails(q) /\ UNCHANGED <<lockVars, ttlVars, driverVars, dbVars, compileVars>>
    \/ \E q \in DCallers, a \in 0..MaxRows :
           ExecuteDone(q, a) /\ UNCHANGED <<lockVars, ttlVars, driverVars, dbVars, compileVars>>
    \/ \E q \in DCallers, ok \in BOOLEAN :
           QueryDone(q, ok) /\ UNCHANGED <<lockVars, ttlVars, driverVars, dbVars, compileVars>>
    \/ \E q \in DCallers :
           TableResume(q) /\ UNCHANGED <<lockVars, ttlVars, driverVars, dbVars, compileVars>>

SpecTable == InitShutdown /\ [][NextTable]_vars

\* the calls of one caller of a Table, with the arguments it compiles
NextFacade ==
    \/ \E kind \in MutatingKinds \cup ReadKinds : \E params \in FacadeArgs(kind) :
           TableCall(FacadeCaller, kind, params)
               /\ UNCHANGED <<lockVars, ttlVars, driverVars, dbVars, compileVars>>
    \/ ExecuteFails(FacadeCaller) /\ UNCHANGED <<lockVars, ttlVars, driverVars, dbVars, compileVars>>
    \/ \E a \in 0..MaxBatch :
           ExecuteDone(FacadeCaller, a) /\ UNCHANGED <<lockVars, ttlVars, driverVars, dbVars, compileVars>>
    \/ \E ok \in BOOLEAN :
           QueryDone(FacadeCaller, ok) /\ UNCHANGED <<lockVars, ttlVars, driverVars, dbVars, compileVars>>
    \/ TableResume(FacadeCaller) /\ UNCHANGED <<lockVars, ttlVars, driverVars, dbVars, compileVars>>

SpecFacade == InitShutdown /\ [][NextFacade]_vars

\* the builders of the dialect, each applied once to parameters
NextCompile ==
    \E builder \in Builders : \E params \in BuilderParams(builder) :
        Build(builder, params)
            /\ UNCHANGED <<lockVars, ttlVars, driverVars, dbVars, tableVars>>

SpecCompile == InitShutdown /\ [][NextCompile]_vars

\* ping() calls, beside begin() calls on the same driver
NextPing ==
    \/ \E q \in DCallers : DriverCall(q, "ping") /\ UNCHANGED <<lockVars, ttlVars, dbVars, tableVars, compileVars>>
    \/ \E q \in DCallers, r \in Outcomes :
           Settle(q, r) /\ UNCHANGED <<lockVars, ttlVars, dbVars, tableVars, compileVars>>
    \/ \E q \in DCallers, r \in Outcomes :
           SettleTx(q, r) /\ UNCHANGED <<lockVars, ttlVars, dbVars, tableVars, compileVars>>
    \/ \E q \in DCallers : DelayDone(q) /\ UNCHANGED <<lockVars, ttlVars, dbVars, tableVars, compileVars>>
    \/ \E q \in DCallers : RebuildDone(q) /\ UNCHANGED <<lockVars, ttlVars, dbVars, tableVars, compileVars>>
    \/ \E q \in DCallers : RebuildJoined(q) /\ UNCHANGED <<lockVars, ttlVars, dbVars, tableVars, compileVars>>
    \/ \E q \in DCallers : Begin(q) /\ UNCHANGED <<lockVars, ttlVars, dbVars, tableVars, compileVars>>
    \/ \E q \in DCallers, r \in Outcomes :
           GetConnectionDone(q, r) /\ UNCHANGED <<lockVars, ttlVars, dbVars, tableVars, compileVars>>
    \/ \E q \in DCallers, r \in Outcomes :
           BeginTransactionDone(q, r) /\ UNCHANGED <<lockVars, ttlVars, dbVars, tableVars, compileVars>>
    \/ \E q \in DCallers : Resume(q) /\ UNCHANGED <<lockVars, ttlVars, dbVars, tableVars, compileVars>>

SpecPing == InitShutdown /\ [][NextPing]_vars

\* transaction(callback) calls, beside commit() and rollback() calls made
\* directly on the same driver
NextTx ==
    \/ \E q \in DCallers : Transaction(q) /\ UNCHANGED <<lockVars, ttlVars, dbVars, tableVars, compileVars>>
    \/ \E q \in DCallers, r \in Outcomes :
           TxGetConnectionDone(q, r) /\ UNCHANGED <<lockVars, ttlVars, dbVars, tableVars, compileVars>>
    \/ \E q \in DCallers, r \in Outcomes :
           TxBeginTransactionDone(q, r) /\ UNCHANGED <<lockVars, ttlVars, dbVars, tableVars, compileVars>>
    \/ \E q \in DCallers, ok \in BOOLEAN, v \in CallbackValues :
           TxCallbackDone(q, ok, v) /\ UNCHANGED <<lockVars, ttlVars, dbVars, tableVars, compileVars>>
    \/ \E q \in DCallers, r \in Outcomes :
           TxCommitDone(q, r) /\ UNCHANGED <<lockVars, ttlVars, dbVars, tableVars, compileVars>>
    \/ \E q \in DCallers, r \in Outcomes :
           TxRollbackDone(q, r) /\ UNCHANGED <<lockVars, ttlVars, dbVars, tableVars, compileVars>>
    \/ \E q \in DCallers, kind \in EndKinds :
           EndTransaction(q, kind) /\ UNCHANGED <<lockVars, ttlVars, dbVars, tableVars, compileVars>>
    \/ \E q \in DCallers, r \in Outcomes :
           EndTransactionDone(q, r) /\ UNCHANGED <<lockVars, ttlVars, dbVars, tableVars, compileVars>>
    \/ \E q \in DCallers : Resume(q) /\ UNCHANGED <<lockVars, ttlVars, dbVars, tableVars, compileVars>>

SpecTx == InitShutdown /\ [][NextTx]_vars

(***************************************************************************)
(* Claims about the lease lock                                             *)
(***************************************************************************)
SameLock(p, q) == opt[p].key = opt[q].key /\ opt[p].cache = opt[q].cache
Settled(a) == call[a].st \in {"ret", "thrown"}

\* the SET NX of caller p returns OK in this step
AcquireSucceeds(p) ==
    LET a == CallerAgent(p)
    IN  /\ call[a].st # "ret"
        /\ call'[a].st = "ret" /\ call'[a].op = "set" /\ call'[a].res = "OK"

\* C1: of the safeRun calls contending for one lock key on one cache at most
\* one acquires it: an acquisition succeeds only when the key was absent at
\* the instant of its SET, so two callers run their tasks on the same key
\* only after the first lease was lost (expired, or deleted by a shutdown
\* sweep); a caller that does not acquire goes straight to {ok:false}, with
\* its task never started and no further cache command issued.
C1_AtMostOneAcquires ==
    /\ [][\A p \in Callers :
            /\ AcquireSucceeds(p) =>
                 /\ cache[call'[CallerAgent(p)].c][call'[CallerAgent(p)].k].val = NoVal
                 /\ cache'[call'[CallerAgent(p)].c][call'[CallerAgent(p)].k].val
                        = generateLockValue(p)
                 /\ \A q \in Callers \ {p} :
                        AcquireSucceeds(q) => ~SameLock(p, q)'
            /\ (pc[p] = "acquiring" /\ pc'[p] # "acquiring"
                  /\ ~(call[CallerAgent(p)].st = "ret"
                         /\ call[CallerAgent(p)].res = "OK")) =>
                 /\ pc'[p] = "done" /\ outcome'[p] = "notAcquired"
                 /\ taskRuns'[p] = 0
                 /\ call'[CallerAgent(p)] = NoCall]_vars
    /\ [](\A p, q \in Callers :
            (p # q /\ pc[p] = "task" /\ pc[q] = "task" /\ SameLock(p, q))
               => (nExpire > 0 \/ \E pr \in Procs : dpc[pr] # "idle"))
    /\ [](\A p \in Callers : outcome[p] = "notAcquired" => taskRuns[p] = 0)

\* C1 witness: one caller runs its task while a contender for the same key
\* on the same cache has been turned away, the lease still being in place
C1_Witness ==
    \E p, q \in Callers :
        /\ p # q /\ SameLock(p, q)
        /\ pc[p] = "task" /\ cache[opt[p].cache][opt[p].key].val = generateLockValue(p)
        /\ pc[q] = "done" /\ outcome[q] = "notAcquired" /\ taskRuns[q] = 0
        /\ nExpire = 0

\* C2 (as claimed): a safeRun on an unlocked key, with the cache reachable
\* throughout and no other contender, acquires, runs its task exactly once,
\* returns {ok:true} and leaves the key absent.
C2_UncontendedRunSucceeds ==
    \A p \in Callers :
        (/\ pc[p] = "done"
         /\ nDown = 0 /\ nExpire = 0
         /\ \A q \in Callers \ {p} : pc[q] = "idle"
         /\ \A pr \in Procs : dpc[pr] = "idle")
        => /\ outcome[p] \in {"ok", "rethrown"}
           /\ taskRuns[p] = 1
           /\ cache[opt[p].cache][opt[p].key].val = NoVal

\* C3: a present cache entry is changed only by the passing of time or by a
\* release/extend command carrying the entry's current value: the release
\* then deletes it, the extend renews its TTL.  A command carrying another
\* value (a holder whose lease expired and was re-acquired) changes nothing.
C3_OwnerVerified ==
    [][\A c \in Caches, k \in Keys :
         LET e == cache[c][k]
             e2 == cache'[c][k]
         IN  (e.val # NoVal /\ e2 # e) =>
               \/ nExpire' # nExpire
               \/ e2 = [e EXCEPT !.fresh = FALSE]
               \/ \E a \in Agents :
                    /\ call'[a] # call[a]
                    /\ call'[a].c = c /\ call'[a].k = k
                    /\ call'[a].v = e.val
                    /\ \/ call'[a].op = "release" /\ e2 = NoEntry
                       \/ call'[a].op = "extend"
                            /\ e2 = [val |-> e.val, fresh |-> TRUE]]_vars

\* C3 witness: a release or extend carrying a stale value has been executed
\* on a key that another acquisition holds, and the entry is still there
C3_Witness ==
    \E a \in Agents :
        /\ call[a].st = "ret" /\ call[a].op \in {"release", "extend"}
        /\ call[a].res = "0"
        /\ cache[call[a].c][call[a].k].val \notin {NoVal, call[a].v}
        /\ \E q \in Callers :
              /\ generateLockValue(q) = cache[call[a].c][call[a].k].val
              /\ pc[q] = "task"

\* C4: once the task of an acquired lock settles, by returning or throwing,
\* safeRun leaves the task only into the cleanup: the lease's renewal timer
\* is stopped and the owner-verified release of its own key and value is
\* issued; safeRun settles only after that release settled, with {ok:true}
\* if the task returned and with the task's exception if it threw.
C4_CleanupBeforeReturn ==
    /\ [][\A p \in Callers :
            /\ (pc[p] = "task" /\ pc'[p] # "task") =>
                 /\ pc'[p] \in {"releasing", "releasingErr"}
                 /\ ~rec'[p].timer
                 /\ call'[CallerAgent(p)].op = "release"
                 /\ call'[CallerAgent(p)].c = opt[p].cache
                 /\ call'[CallerAgent(p)].k = opt[p].key
                 /\ call'[CallerAgent(p)].v = generateLockValue(p)
            /\ (outcome'[p] \in {"ok", "rethrown"} /\ outcome[p] = "none") =>
                 /\ pc[p] \in {"releasing", "releasingErr"}
                 /\ Settled(CallerAgent(p))
                 /\ call[CallerAgent(p)].op = "release"
                 /\ outcome'[p] = IF pc[p] = "releasingErr" THEN "rethrown" ELSE "ok"
                 /\ pc'[p] = "done"]_vars
    /\ [](\A p \in Callers :
            pc[p] \in {"releasing", "releasingErr", "done"} => ~rec[p].timer)

\* C4 witness: a safeRun whose task threw has re-thrown after its cleanup,
\* the renewal it had started being stopped and its key deleted
C4_Witness ==
    \E p \in Callers :
        /\ pc[p] = "done" /\ outcome[p] = "rethrown" /\ opt[p].autoRenew
        /\ taskRuns[p] = 1 /\ ~rec[p].timer
        /\ cache[opt[p].cache][opt[p].key].val = NoVal
        /\ nExpire = 0 /\ \A pr \in Procs : dpc[pr] = "idle"

\* C5 (as claimed): a safeRun whose acquisition failed returned {ok:false},
\* never ran its task, and left the renewal map and the cache key as they
\* were: its own lease value is not in the cache.
C5_FailedAcquireChangesNothing ==
    \A p \in Callers :
        outcome[p] = "notAcquired" =>
            /\ taskRuns[p] = 0
            /\ rec[p] = NoRec
            /\ cache[opt[p].cache][opt[p].key].val # generateLockValue(p)

\* the renewal callback of p completes in this step
RenewalCompletes(p) ==
    Settled(TimerAgent(p)) /\ call'[TimerAgent(p)] = NoCall
RenewalSucceeded(p) ==
    call[TimerAgent(p)].st = "ret" /\ call[TimerAgent(p)].res = "1"

C7_ShutdownReleasesAll ==
    [][\A pr \in Procs :
         (dpc'[pr] = "done" /\ dpc[pr] # "done") =>
              /\ renewMap'[pr] = <<>>
              /\ \A p \in Callers : procOf(p) = pr => ~rec'[p].timer]_vars

(***************************************************************************)
(* Claim about the TTL normalisation                                       *)
(***************************************************************************)
\* C8: for every integer ttlMs option, or none, the TTL safeRun uses lies in
\* [5000, 600000]: it is ttlMs inside the range, the nearer bound outside
\* it, and 30000 when ttlMs is not given.
C8_TtlClamped ==
    /\ ttlOut \in 5000..600000
    /\ ~ttlIn.given => ttlOut = 30000
    /\ ttlIn.given =>
          ttlOut = (IF ttlIn.ms < 5000 THEN 5000
                    ELSE IF ttlIn.ms > 600000 THEN 600000 ELSE ttlIn.ms)

\* C8 witness: a ttlMs above the range has been normalised to the upper bound
C8_Witness == ttlIn.given /\ ttlIn.ms > 600000 /\ ttlOut = 600000

(***************************************************************************)
(* Claims about the driver's retry protocol                                *)
(***************************************************************************)
\* the retryable class as the design states it: refused/reset/timeout,
\* host/network unreachable, broken pipe, "connection lost"/"closed" messages
RetryableClass(e) ==
    \/ e.code \in {"ECONNREFUSED", "ECONNRESET", "ETIMEDOUT", "EHOSTUNREACH",
                   "ENETUNREACH", "EPIPE"}
    \/ "Connection lost" \in e.message
    \/ "Connection closed" \in e.message

\* q's current driver call is a query/execute entered with no connection pinned
RetriedCall(q) == qloc[q].kind \in QueryKinds /\ ~qloc[q].inTx

AttemptFails(q) ==
    /\ qpc[q] = "op"
    /\ qpc'[q] # "op"
    /\ ~(qpc'[q] = "done" /\ qres'[q].st = "ok")

QuietCall(q) == RetriedCall(q) /\ qloc[q].quiet

\* C11: an undisturbed query/execute whose first two attempts fail with a
\* retryable error and whose third succeeds returns the third attempt's
\* result having started exactly one rebuild; the rebuild of an undisturbed
\* call starts after its second failed invocation, at the beginning of the
\* third attempt, and the third invocation follows it.
C11_TwoFailuresOneRebuild ==
    /\ [](\A q \in DCallers : QuietCall(q) =>
            /\ qloc[q].rebuilds = (IF qloc[q].attempt = 3 THEN 1 ELSE 0)
            /\ (qpc[q] = "done" /\ qres[q].st = "ok" /\ qloc[q].calls = 3) =>
                  /\ qres[q].val = 3
                  /\ qloc[q].rebuilds = 1)
    /\ [][\A q \in DCallers :
            (QuietCall(q)' /\ qloc'[q].rebuilds # qloc[q].rebuilds) =>
                /\ qloc[q].calls = 2 /\ qloc'[q].calls = 2
                /\ qloc[q].consecutiveErrors = 2
                /\ qloc'[q].attempt = 3
                /\ dstate'.pool = dstate.pool + 1]_vars

\* C11 witness: an undisturbed call has returned the result of its third
\* attempt after one rebuild
C11_Witness ==
    \E q \in DCallers :
        /\ QuietCall(q) /\ qpc[q] = "done" /\ qres[q].st = "ok"
        /\ qres[q].val = 3 /\ qloc[q].rebuilds = 1 /\ dstate.pool = 1

\* C12: in every interleaving, an operation that failed once with a
\* retryable error and then succeeded has started no pool rebuild.
C12_OnceFailedNeverRebuilds ==
    \A q \in DCallers :
        (/\ RetriedCall(q) /\ qpc[q] = "done" /\ qres[q].st = "ok"
         /\ qloc[q].calls = 2) => qloc[q].rebuilds = 0

\* C13: at most one caller is inside a rebuild task and the rebuild guard is
\* held exactly while one is; a caller that needs a rebuild while the guard is
\* held waits and leaves the pool handle as it is; the pool handle is replaced
\* only by the step that takes the guard, by one new handle.
C13_SingleFlightRebuild ==
    /\ [](/\ Cardinality({q \in DCallers : qpc[q] = "rebuild"}) <= 1
          /\ dstate.rebuildLock <=> (\E q \in DCallers : qpc[q] = "rebuild"))
    /\ [][\A q \in DCallers :
            (qpc[q] = "delay" /\ qpc'[q] \in {"rebuild", "rebuildWait"}) =>
                IF dstate.rebuildLock
                THEN qpc'[q] = "rebuildWait" /\ dstate' = dstate
                ELSE qpc'[q] = "rebuild" /\ dstate'.pool = dstate.pool + 1]_vars
    /\ [][dstate'.pool # dstate.pool =>
            /\ ~dstate.rebuildLock /\ dstate'.rebuildLock
            /\ dstate'.pool = dstate.pool + 1]_vars

C13_Witness ==
    \E q \in DCallers : \E p \in DCallers \ {q} :
        /\ qpc[q] = "rebuild" /\ qpc[p] = "rebuildWait"
        /\ dstate.rebuildLock /\ dstate.pool = 1

\* q's begin() is past its check and has not ended
BeginInProgress(q) == qpc[q] \in {"getConnection", "beginTransaction"}

\* C14: a query/execute entered while a connection is pinned runs on it; a
\* begin() entered while a connection is pinned or while another begin() is
\* in progress fails with the usage error and changes no driver state; and
\* at most one connection is checked out for transactions at any time.
C14_OneTransactionConnection ==
    /\ [](\A q \in DCallers :
            (qloc[q].kind \in QueryKinds /\ qloc[q].inTx) =>
                qloc[q].executor = "conn")
    /\ [][\A q \in DCallers :
            (/\ qpc[q] = "idle" /\ qloc'[q].kind = "begin"
             /\ \/ Pinned
                \/ \E p \in DCallers \ {q} : BeginInProgress(p)) =>
                /\ qpc'[q] = "done" /\ qres'[q].err = UsageError
                /\ dstate' = dstate]_vars
    /\ [](dstate.checkedOut <= 1)

\* C15: a commit()/rollback() entered with no connection pinned fails at once
\* with the usage error and changes no driver state; a commit()/rollback()
\* that succeeds has released one connection and left none pinned; and one
\* that finds the pin gone when its statement settles fails.
C15_EndNeedsPinAndUnpins ==
    /\ [][\A q \in DCallers :
            (qpc[q] = "idle" /\ qloc'[q].kind \in EndKinds /\ ~Pinned) =>
                /\ qpc'[q] = "done" /\ qres'[q].err = UsageError
                /\ dstate' = dstate]_vars
    /\ [][\A q \in DCallers :
            (qpc[q] = "ending" /\ qpc'[q] = "done") =>
                IF qres'[q].st = "ok"
                THEN /\ Pinned /\ dstate'.connection = "none"
                     /\ dstate'.checkedOut = dstate.checkedOut - 1
                ELSE dstate' = dstate]_vars
    /\ [](\A q \in DCallers :
            (qloc[q].kind \in EndKinds /\ ~qloc[q].inTx /\ qpc[q] = "done") =>
                qres[q].err = UsageError)

C15_Witness ==
    \E q \in DCallers : \E p \in DCallers :
        /\ qloc[q].kind \in EndKinds /\ qpc[q] = "done" /\ qres[q].st = "ok"
        /\ qloc[p].kind \in EndKinds /\ qpc[p] = "done"
        /\ qres[p].err = UsageError /\ ~qloc[p].inTx
        /\ ~Pinned /\ dstate.checkedOut = 0

\* C16: while a connection is pinned, an attempt of a query/execute that
\* fails ends its call with that error, no call starts or waits for a rebuild,
\* and the pool handle and the dead mark stay as they are, whenever the call
\* was entered.
C16_NoRetryWhilePinned ==
    /\ [][\A q \in DCallers :
            (Pinned /\ qloc[q].kind \in QueryKinds /\ AttemptFails(q)) =>
                /\ qpc'[q] = "done" /\ qres'[q].st = "err"
                /\ qloc[q].calls = 1]_vars
    /\ [][Pinned =>
            /\ dstate'.pool = dstate.pool
            /\ dstate'.isPoolDead = dstate.isPoolDead
            /\ \A q \in DCallers :
                   qpc'[q] \in {"rebuild", "rebuildWait"} =>
                       qpc[q] \in {"rebuild", "rebuildWait"}]_vars

\* q's current call is a transaction(callback) whose callback has settled
CallbackSettled(q) ==
    /\ qloc[q].kind = "transaction" /\ qloc[q].cbRuns > 0
    /\ qpc[q] \notin {"txCallback"}

\* C17: a transaction(callback) that has begun runs the callback once; when
\* the callback has succeeded it issues a commit and no rollback, and a
\* call that returns returns the callback's value; when the callback has
\* failed it issues a rollback and no commit, and the call ends with the
\* callback's own error.
C17_CommitOrRollbackOnce ==
    \A q \in DCallers :
        /\ qloc[q].kind = "transaction" => qloc[q].cbRuns <= 1
        /\ (CallbackSettled(q) /\ qpc[q] = "done") =>
               /\ qloc[q].commits + qloc[q].rollbacks = 1
               /\ IF qloc[q].cbError = NoError
                  THEN /\ qloc[q].commits = 1
                       /\ qres[q].st = "ok" => qres[q].val = qloc[q].cbValue
                  ELSE /\ qloc[q].rollbacks = 1
                       /\ qres[q].st = "err"
                       /\ qres[q].err = qloc[q].cbError

SameIdentity(a, b) ==
    /\ a.config.isString = b.config.isString
    /\ IF a.config.isString
       THEN a.config.text = b.config.text /\ a.type = b.type
       ELSE /\ EffectiveType(a.config, a.type) = EffectiveType(b.config, b.type)
            /\ \A f \in ConfigFields \ {"type", "password"} :
                   a.config.fields[f] = b.config.fields[f]

\* C19: two create calls of the same connection identity have returned the
\* same Database, one driver has been constructed for every Database
\* returned, and two table calls with the same name on the same Database
\* have returned the same Table.
C19_CreateIdempotent ==
    /\ \A a \in created : \A b \in created : SameIdentity(a, b) => a.db = b.db
    /\ nDrivers = Cardinality({a.db : a \in created})
    /\ \A a \in tabled : \A b \in tabled :
           (a.db = b.db /\ a.name = b.name) => a.tbl = b.tbl
    /\ nTables = Cardinality({<<a.db, a.name>> : a \in tabled})

C19_Witness ==
    /\ \E a \in created : \E b \in created :
           /\ a # b /\ ~a.config.isString /\ SameIdentity(a, b) /\ a.db = b.db
           /\ a.config.fields["password"] # b.config.fields["password"]
    /\ \E a \in created : a.config.isString
    /\ nDrivers = 2

\* q's Table call ends in this step
TableCallEnds(q) == tpc[q] # "done" /\ tpc'[q] = "done"

\* the kind of the call of q that ends in this step
EndingKind(q) == tloc'[q].kind

\* C20: a mutating call that returns leaves in the slot its own type and
\* its own affected-row count; a mutating call that raises an error, and
\* every non-mutating call, leaves the slot as it was; no step other than
\* the end of a mutating call changes the slot; and a slot that holds a
\* result never goes back to undefined.
C20_SlotHoldsLastSuccess ==
    /\ [][\A q \in DCallers :
            (TableCallEnds(q) /\ EndingKind(q) \in MutatingKinds) =>
                IF tres'[q].st = "ok"
                THEN /\ lastOperationResult'.type = OperationType(EndingKind(q))
                     /\ lastOperationResult'.affectedRows = tloc'[q].affectedRows
                ELSE lastOperationResult' = lastOperationResult]_vars
    /\ [][\A q \in DCallers :
            (TableCallEnds(q) /\ EndingKind(q) \in ReadKinds) =>
                lastOperationResult' = lastOperationResult]_vars
    /\ [][lastOperationResult' # lastOperationResult =>
            \E q \in DCallers :
                TableCallEnds(q) /\ EndingKind(q) \in MutatingKinds]_vars
    /\ [][lastOperationResult # NoResult => lastOperationResult' # NoResult]_vars

C20_Witness ==
    \E q \in DCallers : \E p \in DCallers \ {q} :
        /\ tpc[q] = "done" /\ tloc[q].kind = "remove" /\ tres[q].st = "ok"
        /\ tloc[q].affectedRows = 2
        /\ lastOperationResult = OperationResult("remove", 2)
        /\ tpc[p] = "done" /\ tloc[p].kind \in ReadKinds
        /\ tn = 3

\* C20: every mutating call that has ended, however it ended, has left in
\* the slot its own type, and its own affected-row count when the driver
\* reported one.
C20_EveryMutatingCallOverwrites ==
    [][\A q \in DCallers :
          (TableCallEnds(q) /\ EndingKind(q) \in MutatingKinds) =>
              /\ lastOperationResult'.type = OperationType(EndingKind(q))
              /\ tloc'[q].executed =>
                     lastOperationResult'.affectedRows = tloc'[q].affectedRows]_vars

\* the update operators the compiler knows
KnownUpdateOperators == {"set", "increment", "decrement", "multiply", "divide"}

\* a value of update's data that resolves to no assignment: undefined, or an
\* operator object none of whose operators is known
ResolvesToNothing(value) ==
    \/ value.t = "undefined"
    \/ /\ value.t = "object"
       /\ \A i \in 1..Len(value.ops) : value.ops[i].key \notin KnownUpdateOperators

\* update's data has no resolvable assignment
ZeroAssignments(data) == \A i \in 1..Len(data) : ResolvesToNothing(data[i].value)

\* the call of q at hand is an update with no resolvable assignment
NoOpUpdate(q) == tloc[q].kind = "update" /\ ZeroAssignments(tloc[q].params.data)

FieldSet(row) == {row[j].key : j \in 1..Len(row)}

\* the indices, counted from 0, of the records of a batch whose field set is
\* not that of the first record
Mismatching(data) ==
    {i \in 1..(Len(data) - 1) : FieldSet(data[i + 1]) # FieldSet(data[1])}

\* q calls the Table in this step
TableCallStarts(q) == tpc[q] = "idle" /\ tpc'[q] # "idle"

\* C22: an adds() in whose batch some record's set of field names differs,
\* whatever the order of the fields, from that of the first record throws
\* before it sends a statement; the error names the smallest index of such a
\* record; the slot stays as it was.
C22_MismatchingRecordRejected ==
    [][\A q \in DCallers :
          (/\ TableCallStarts(q)
           /\ tloc'[q].kind = "adds"
           /\ Mismatching(tloc'[q].params.data) # {}) =>
              /\ tpc'[q] = "done" /\ tres'[q].st = "err"
              /\ tres'[q].error = "Record at index has different fields"
              /\ tres'[q].index \in Mismatching(tloc'[q].params.data)
              /\ \A i \in Mismatching(tloc'[q].params.data) : tres'[q].index <= i
              /\ tloc'[q].sent = 0
              /\ lastOperationResult' = lastOperationResult]_vars

C22_Witness ==
    /\ tloc[FacadeCaller].kind = "adds"
    /\ Len(tloc[FacadeCaller].params.data) = 3
    /\ ObjectKeys(tloc[FacadeCaller].params.data[1]) = <<"a", "b">>
    /\ ObjectKeys(tloc[FacadeCaller].params.data[2]) = <<"b", "a">>
    /\ ObjectKeys(tloc[FacadeCaller].params.data[3]) = <<"a">>
    /\ tpc[FacadeCaller] = "done" /\ tres[FacadeCaller].st = "err"
    /\ tres[FacadeCaller].index = 2
    /\ tloc[FacadeCaller].sent = 0
    /\ lastOperationResult = [type |-> "delete", affectedRows |-> 1, action |-> "none"]

\* the driver.execute of q's call returns in this step
ExecuteReturns(q) == tpc[q] = "execute" /\ tpc'[q] = "done" /\ tloc'[q].executed

\* C23: when the driver.execute of an adds() returns, the call succeeds, and
\* records {type: insert, affectedRows} in the slot, exactly when the
\* affected-row count the driver reports is the number of records; with any
\* other count it throws the shortfall error and the slot stays as it was.
C23_BatchInsertedWholeOrFails ==
    [][\A q \in DCallers :
          (ExecuteReturns(q) /\ tloc'[q].kind = "adds") =>
              IF tloc'[q].affectedRows = Len(tloc'[q].params.data)
              THEN /\ tres'[q].st = "ok"
                   /\ lastOperationResult' =
                          [type |-> "insert", affectedRows |-> Len(tloc'[q].params.data),
                           action |-> "none"]
              ELSE /\ tres'[q].st = "err"
                   /\ tres'[q].error = "Expected to insert rows but only some were affected"
                   /\ lastOperationResult' = lastOperationResult]_vars

C23_Witness ==
    /\ tloc[FacadeCaller].kind = "adds"
    /\ Len(tloc[FacadeCaller].params.data) = 3
    /\ tloc[FacadeCaller].executed /\ tloc[FacadeCaller].affectedRows = 2
    /\ tpc[FacadeCaller] = "done" /\ tres[FacadeCaller].st = "err"
    /\ lastOperationResult = [type |-> "insert", affectedRows |-> 1, action |-> "none"]

\* C24: when the driver.execute of an upsert() returns, the call succeeds
\* and the slot holds type upsert with the affected-row count reported and
\* the action insert for the count 1, update for 2 and for any other count,
\* 0 included.
C24_UpsertActionFromAffectedRows ==
    [][\A q \in DCallers :
          (ExecuteReturns(q) /\ tloc'[q].kind = "upsert") =>
              /\ tres'[q].st = "ok"
              /\ lastOperationResult'.type = "upsert"
              /\ lastOperationResult'.affectedRows = tloc'[q].affectedRows
              /\ tloc'[q].affectedRows = 1 => lastOperationResult'.action = "insert"
              /\ tloc'[q].affectedRows = 2 => lastOperationResult'.action = "update"
              /\ tloc'[q].affectedRows # 1 => lastOperationResult'.action = "update"]_vars

C24_Witness ==
    /\ tloc[FacadeCaller].kind = "upsert"
    /\ tloc[FacadeCaller].executed /\ tloc[FacadeCaller].affectedRows = 0
    /\ tpc[FacadeCaller] = "done" /\ tres[FacadeCaller].st = "ok"
    /\ lastOperationResult = [type |-> "upsert", affectedRows |-> 0, action |-> "update"]
    /\ tn = 2

\* the uniqueKeys of an upsert are empty, or list a name that is not a
\* field of data
BadUniqueKeys(params) ==
    \/ Len(params.uniqueKeys) = 0
    \/ \E i \in 1..Len(params.uniqueKeys) : params.uniqueKeys[i] \notin FieldSet(params.data)

\* C25: an upsert() whose uniqueKeys are empty, or list a name that is not
\* a field of data, throws before it compiles or sends a statement, and the
\* slot stays as it was.
C25_BadUniqueKeysRejected ==
    [][\A q \in DCallers :
          (/\ TableCallStarts(q)
           /\ tloc'[q].kind = "upsert"
           /\ BadUniqueKeys(tloc'[q].params)) =>
              /\ tpc'[q] = "done" /\ tres'[q].st = "err"
              /\ tloc'[q].sent = 0
              /\ Len(tloc'[q].statement.prepare) = 0
              /\ lastOperationResult' = lastOperationResult]_vars

\* the argument of a range operator is malformed: no array or an empty one
\* for in and notIn, no array or not two values for between and notBetween
MalformedArgument(operator, value) ==
    \/ operator \in {"in", "notIn"} /\ (value.t # "array" \/ Len(value.items) = 0)
    \/ operator \in {"between", "notBetween"} /\ (value.t # "array" \/ Len(value.items) # 2)

\* a field of the object holds a malformed range operator
MalformedRange(fields) ==
    \E i \in 1..Len(fields) :
        /\ fields[i].value.t = "object"
        /\ \E j \in 1..Len(fields[i].value.ops) :
               MalformedArgument(fields[i].value.ops[j].key, fields[i].value.ops[j].value)

\* a JOIN definition of unknown type, or one that is not CROSS and has
\* neither ON nor USING
MalformedJoin(join) ==
    \E i \in 1..Len(join) :
        /\ join[i].value.t = "config"
        /\ \/ join[i].value.type \notin {"INNER", "LEFT", "RIGHT", "FULL", "CROSS"}
           \/ /\ join[i].value.type # "CROSS"
              /\ ~join[i].value.hasUsing /\ Len(join[i].value.on) = 0

\* the compilation of the call fails: an empty batch, a malformed range
\* operator in the WHERE object of an operation that takes one, a malformed
\* JOIN of an operation that takes one
CompilationFails(kind, params) ==
    \/ kind = "adds" /\ Len(params.data) = 0
    \/ /\ kind \in {"get", "gets", "count", "exists", "update", "remove"}
       /\ params.where.t = "object" /\ MalformedRange(params.where.fields)
    \/ kind \in {"get", "gets", "count"} /\ MalformedJoin(params.join)

\* C26: a call of the Table whose compilation fails ends in the step that
\* makes it: driver.query and driver.execute are not called, nothing is done
\* later for it, and the call throws an error of the compiler and leaves the
\* slot as it was; only an update may return instead, when it found no
\* field to update before its WHERE was compiled.
C26_CompileErrorBeforeIO ==
    [][\A q \in DCallers :
          (TableCallStarts(q) /\ CompilationFails(tloc'[q].kind, tloc'[q].params)) =>
              /\ tpc'[q] = "done"
              /\ tloc'[q].sent = 0
              /\ tres'[q].st = "ok" =>
                     /\ tloc'[q].kind = "update"
                     /\ lastOperationResult'.affectedRows = 0
              /\ tres'[q].st # "ok" =>
                     /\ tres'[q].st = "err" /\ tres'[q].error # "driver"
                     /\ lastOperationResult' = lastOperationResult]_vars

C26_Witness ==
    /\ tloc[FacadeCaller].kind = "count"
    /\ MalformedJoin(tloc[FacadeCaller].params.join)
    /\ tloc[FacadeCaller].params.join[1].value.type = "LEFT"
    /\ tpc[FacadeCaller] = "done" /\ tres[FacadeCaller].st = "err"
    /\ tres[FacadeCaller].error = "JOIN requires either on or using"
    /\ tloc[FacadeCaller].sent = 0
    /\ lastOperationResult # NoResult

\* the placeholders of a text, in text order
Marks(prepare) == SelectSeq(prepare, LAMBDA token : token.k = "?")

\* the values the placeholders of a text were written for, in text order
Binds(prepare) == [i \in 1..Len(Marks(prepare)) |-> Marks(prepare)[i].bind]

\* every raw fragment of the descriptor carries the parameters of its own
\* placeholders, in order: none for a raw string
RECURSIVE RawMatched(_)
RawMatched(where) ==
    CASE where.t = "absent" -> TRUE
      [] where.t = "string" -> Len(Marks(where.sql)) = 0
      [] where.t = "array" -> Binds(where.sql) = where.params
      [] OTHER -> /\ \A i \in 1..Len(where.AND) : RawMatched(where.AND[i])
                  /\ \A i \in 1..Len(where.OR) : RawMatched(where.OR[i])

\* the raw SQL of WHERE, HAVING and the ON strings of JOIN is matched
RawInputMatched(params) ==
    /\ RawMatched(params.where)
    /\ params.having.t \in {"string", "array"} => RawMatched(params.having)
    /\ \A i \in 1..Len(params.join) : Len(Marks(params.join[i].value.on)) = 0

\* a statement was compiled
Compiled == compiled.builder # "none" /\ compiled.statement.error = "none"

\* C27 (as amended): in every statement a builder compiles from parameters
\* whose raw SQL (raw WHERE and HAVING fragments, ON strings) carries
\* exactly the parameters of its own placeholders, the text has as many
\* placeholders as the list has parameters, and the i-th parameter is the
\* value the i-th placeholder of the text was written for: those of SET
\* before those of WHERE, those of WHERE before those of HAVING.
C27_ParametersFollowPlaceholders ==
    (Compiled /\ RawInputMatched(compiled.params)) =>
        /\ Len(Marks(compiled.statement.prepare)) = Len(compiled.statement.holders)
        /\ Binds(compiled.statement.prepare) = compiled.statement.holders

C27_Witness ==
    /\ compiled.builder = "select" /\ Compiled
    /\ RawInputMatched(compiled.params)
    /\ compiled.params.where.t = "array" /\ compiled.params.having.t = "array"
    /\ compiled.params.limit = 2
    /\ compiled.statement.holders = <<VNum(30), VNum(43)>>

\* C27: in every statement a builder compiles, the text has as many
\* placeholders as the list has parameters, and the i-th parameter is the
\* value of the i-th placeholder.
C27_EveryStatementBalanced ==
    Compiled =>
        /\ Len(Marks(compiled.statement.prepare)) = Len(compiled.statement.holders)
        /\ Binds(compiled.statement.prepare) = compiled.statement.holders

\* the statement at hand has the WHERE object {a: {operator: argument}} of
\* one range operator, and no other clause that takes parameters
RangeOperatorCompiled ==
    /\ compiled.builder \in {"select", "delete", "exists"}
    /\ compiled.params.having.t = "absent" /\ Len(compiled.params.join) = 0
    /\ compiled.params.where.t = "object"
    /\ Len(compiled.params.where.fields) = 1
    /\ Len(compiled.params.where.AND) = 0 /\ Len(compiled.params.where.OR) = 0
    /\ compiled.params.where.fields[1].value.t = "object"
    /\ Len(compiled.params.where.fields[1].value.ops) = 1
    /\ compiled.params.where.fields[1].value.ops[1].key \in RangeOperators

\* the range operator of that statement and its argument
RangeOperator == compiled.params.where.fields[1].value.ops[1].key
RangeArgument == compiled.params.where.fields[1].value.ops[1].value

\* C28: the compilation of in or notIn with an argument that is no array or
\* an empty array, and of between or notBetween with an argument that is no
\* array or an array of other than two values, fails; with a well-formed
\* argument of n values the statement has exactly n placeholders and n
\* parameters, the values in the order of the argument.
C28_RangeOperatorArity ==
    RangeOperatorCompiled =>
        IF MalformedArgument(RangeOperator, RangeArgument)
        THEN compiled.statement.error # "none"
        ELSE /\ compiled.statement.error = "none"
             /\ Len(Marks(compiled.statement.prepare)) = Len(RangeArgument.items)
             /\ compiled.statement.holders =
                    [i \in 1..Len(RangeArgument.items) |-> toSQLHolder(RangeArgument.items[i])]
             /\ Binds(compiled.statement.prepare) = compiled.statement.holders

C28_Witness ==
    /\ RangeOperatorCompiled
    /\ RangeOperator = "notIn" /\ RangeArgument.t = "array"
    /\ Len(RangeArgument.items) = 3
    /\ compiled.statement.holders = <<VNum(11), VNum(12), VNum(13)>>
    /\ Len(Marks(compiled.statement.prepare)) = 3

\* the names of the fields of the descriptor whose value is undefined
RECURSIVE UndefinedFields(_)
UndefinedFields(where) ==
    IF where.t # "object" THEN {}
    ELSE {where.fields[i].key : i \in {j \in 1..Len(where.fields) :
                                           where.fields[j].value.t = "undefined"}}
         \cup UNION {UndefinedFields(where.AND[i]) : i \in 1..Len(where.AND)}
         \cup UNION {UndefinedFields(where.OR[i]) : i \in 1..Len(where.OR)}

\* an object of fields alone, each of them undefined
AllUndefined(where) ==
    /\ where.t = "object" /\ Len(where.fields) > 0
    /\ Len(where.AND) = 0 /\ Len(where.OR) = 0
    /\ \A i \in 1..Len(where.fields) : where.fields[i].value.t = "undefined"

\* an object of fields alone, compiled by a builder that takes no other
\* parameters
FlatWhereCompiled ==
    /\ compiled.builder \in {"select", "delete", "exists"}
    /\ compiled.params.having.t = "absent" /\ Len(compiled.params.join) = 0
    /\ compiled.params.where.t = "object"
    /\ Len(compiled.params.where.AND) = 0 /\ Len(compiled.params.where.OR) = 0

\* the text holds this piece
HasToken(prepare, token) == \E i \in 1..Len(prepare) : prepare[i] = token

\* the keywords that end the WHERE clause of a statement
ClauseEnds == {Kw("GROUP BY"), Kw("HAVING"), Kw("ORDER BY"), Kw("LIMIT")}

\* the place of this piece in the text, the place behind the text without it
Place(prepare, tokens) ==
    LET places == {i \in 1..Len(prepare) : prepare[i] \in tokens} \cup {Len(prepare) + 1}
    IN  CHOOSE i \in places : \A j \in places : i <= j

\* the WHERE clause of the text, its keyword included; empty without one
WhereClause(prepare) ==
    SubSeq(prepare, Place(prepare, {Kw("WHERE")}), Place(prepare, ClauseEnds) - 1)

\* C30: a field of a WHERE object whose value is undefined is no error (an
\* object of fields compiles unless a range operator of another field is
\* malformed), leaves no fragment in the text (its name does not occur, in
\* nested AND and OR members either) and no parameter (every parameter is
\* that of a placeholder of the text); and select, update, delete, count
\* and exists compile a WHERE object whose every field is undefined to a
\* statement without WHERE clause.
C30_UndefinedFieldSkipped ==
    /\ FlatWhereCompiled =>
           (compiled.statement.error = "none" <=> ~MalformedRange(compiled.params.where.fields))
    /\ (Compiled /\ compiled.builder \in {"select", "update", "delete", "count", "exists"}) =>
           \A key \in UndefinedFields(compiled.params.where) :
               ~HasToken(WhereClause(compiled.statement.prepare), Id(key))
    /\ (Compiled /\ RawInputMatched(compiled.params)) =>
           Binds(compiled.statement.prepare) = compiled.statement.holders
    /\ (/\ compiled.builder \in {"select", "update", "delete", "count", "exists"}
        /\ AllUndefined(compiled.params.where)) =>
           /\ compiled.statement.error \in {"none", "No fields to update"}
           /\ ~HasToken(compiled.statement.prepare, Kw("WHERE"))
    /\ (FlatWhereCompiled /\ AllUndefined(compiled.params.where)) =>
           /\ compiled.statement.error = "none"
           /\ compiled.statement.holders = <<>>
           /\ compiled.builder = "delete" =>
                  compiled.statement.prepare = <<Kw("DELETE FROM"), Id("t")>>

C30_Witness ==
    /\ compiled.builder = "update" /\ Compiled
    /\ AllUndefined(compiled.params.where)
    /\ compiled.statement.holders = <<VNum(1), VNum(2)>>
    /\ ~HasToken(compiled.statement.prepare, Kw("WHERE"))

\* the least number of a non-empty set of numbers
Least(places) == CHOOSE i \in places : \A j \in places : i <= j

\* the number of pieces of the condition that begins the text: a raw
\* condition with its placeholder, or a field with its operator and the
\* operator's arguments
ConditionLen(tokens) ==
    IF tokens[1].k = "raw"
    THEN IF Len(tokens) > 1 /\ tokens[2].k = "?" THEN 2 ELSE 1
    ELSE CASE tokens[2].s \in {"IS NULL", "IS NOT NULL"} -> 2
           [] tokens[2].s \in {"IN", "NOT IN"} ->
                Least({i \in 1..Len(tokens) : tokens[i] = Kw(")")})
           [] tokens[2].s \in {"BETWEEN", "NOT BETWEEN"} -> 5
           [] OTHER -> 3

\* the condition that begins the text, named by its field and operator; a
\* raw condition by its text
ConditionName(tokens) ==
    IF tokens[1].k = "raw" THEN <<tokens[1].s, "raw">> ELSE <<tokens[1].s, tokens[2].s>>

\* the text as a formula: each condition one atom, between them the
\* brackets and the words AND and OR
RECURSIVE Formula(_)
Formula(tokens) ==
    IF Len(tokens) = 0 THEN <<>>
    ELSE IF tokens[1].k \in {"raw", "id"}
    THEN <<[k |-> "atom", name |-> ConditionName(tokens)]>>
             \o Formula(SubSeq(tokens, ConditionLen(tokens) + 1, Len(tokens)))
    ELSE <<[k |-> tokens[1].s, name |-> <<>>]>> \o Formula(Tail(tokens))

\* the places of the word in the formula that lie within no bracket
TopLevel(formula, word) ==
    {i \in 1..Len(formula) :
         /\ formula[i].k = word
         /\ Cardinality({j \in 1..i : formula[j].k = "("})
                = Cardinality({j \in 1..i : formula[j].k = ")"})}

\* the truth of the formula, read with the precedence of SQL, when the
\* atoms named in truths hold and the others do not: OR splits first, AND
\* within the operands of OR, a bracket is read last
RECURSIVE Holds(_, _)
Holds(formula, truths) ==
    IF TopLevel(formula, "OR") # {}
    THEN \/ Holds(SubSeq(formula, 1, Least(TopLevel(formula, "OR")) - 1), truths)
         \/ Holds(SubSeq(formula, Least(TopLevel(formula, "OR")) + 1, Len(formula)), truths)
    ELSE IF TopLevel(formula, "AND") # {}
    THEN /\ Holds(SubSeq(formula, 1, Least(TopLevel(formula, "AND")) - 1), truths)
         /\ Holds(SubSeq(formula, Least(TopLevel(formula, "AND")) + 1, Len(formula)), truths)
    ELSE IF Len(formula) = 1 THEN formula[1].name \in truths
    ELSE Holds(SubSeq(formula, 2, Len(formula) - 1), truths)

\* the names of the conditions a field of a descriptor stands for: one for
\* a literal or null, one for each operator of an operator object
FieldNames(field) ==
    CASE field.value.t = "null" -> {<<field.key, "IS NULL">>}
      [] field.value.t \in {"number", "boolean"} -> {<<field.key, "=">>}
      [] OTHER ->
           {<<field.key,
              CASE op.key = "isNull" -> IF op.value.b THEN "IS NULL" ELSE "IS NOT NULL"
                [] op.key = "eq" -> "="
                [] op.key = "ne" -> "!="
                [] op.key = "gt" -> ">"
                [] op.key = "lt" -> "<"
                [] op.key = "in" -> "IN"
                [] op.key = "notIn" -> "NOT IN"
                [] op.key = "between" -> "BETWEEN"
                [] op.key = "notBetween" -> "NOT BETWEEN"
                [] op.key = "like" -> "LIKE">> :
                op \in {field.value.ops[i] : i \in 1..Len(field.value.ops)}}

\* the field stands for at least one condition: it is null, a literal, or
\* an object of known operators, at least one
DefiniteField(field) ==
    \/ field.value.t \in {"null", "number", "boolean"}
    \/ /\ field.value.t = "object" /\ Len(field.value.ops) > 0
       /\ \A i \in 1..Len(field.value.ops) :
              \/ field.value.ops[i].key \in
                     {"eq", "ne", "gt", "lt", "in", "notIn", "between", "notBetween", "like"}
              \/ field.value.ops[i].key = "isNull" /\ field.value.ops[i].value.t = "boolean"

\* every part of the descriptor stands for a condition: no object without
\* keys, no undefined field, no unknown operator
RECURSIVE Definite(_)
Definite(where) ==
    CASE where.t = "absent" -> FALSE
      [] where.t \in {"string", "array"} -> Len(where.sql) > 0
      [] OTHER -> /\ KeyCount(where) > 0
                  /\ \A i \in 1..Len(where.fields) : DefiniteField(where.fields[i])
                  /\ where.hasAND => Len(where.AND) > 0
                  /\ where.hasOR => Len(where.OR) > 0
                  /\ \A i \in 1..Len(where.AND) : Definite(where.AND[i])
                  /\ \A i \in 1..Len(where.OR) : Definite(where.OR[i])

\* the boolean combination the descriptor denotes: a raw fragment is one
\* condition, read by itself; an object is the conjunction of its fields,
\* of the members of its AND array and of the disjunction of the members of
\* its OR array
RECURSIVE Denotes(_, _)
Denotes(where, truths) ==
    IF where.t \in {"string", "array"} THEN Holds(Formula(where.sql), truths)
    ELSE /\ \A i \in 1..Len(where.fields) : FieldNames(where.fields[i]) \subseteq truths
         /\ \A i \in 1..Len(where.AND) : Denotes(where.AND[i], truths)
         /\ where.hasOR => \E i \in 1..Len(where.OR) : Denotes(where.OR[i], truths)

\* the names of the conditions of a formula
Names(formula) == {formula[i].name : i \in {j \in 1..Len(formula) : formula[j].k = "atom"}}

\* the formula holds under exactly the truths under which the descriptor does
SameCombination(formula, where) ==
    \A truths \in SUBSET Names(formula) : Holds(formula, truths) <=> Denotes(where, truths)

\* C29: for every descriptor whose parts all stand for conditions (fields,
\* raw fragments, nested AND and OR arrays), the compiled WHERE text, read
\* with AND binding tighter than OR, holds under exactly the truth values
\* of its conditions under which the descriptor does; and an OR array
\* without sibling conditions is not enclosed as a whole.
C29_WherePreservesPrecedence ==
    (/\ Compiled /\ compiled.builder \in {"select", "delete", "exists"}
     /\ Definite(compiled.params.where)) =>
        /\ SameCombination(Formula(Tail(WhereClause(compiled.statement.prepare))),
                           compiled.params.where)
        /\ (/\ compiled.params.where.t = "object"
            /\ KeyCount(compiled.params.where) = 1
            /\ Len(compiled.params.where.OR) = 2
            /\ compiled.params.where.OR[1] \in PlainMembers) =>
               WhereClause(compiled.statement.prepare)[2] # Kw("(")

\* the text holds the pieces, one after the other
Contains(prepare, pieces) ==
    \E i \in 0..(Len(prepare) - Len(pieces)) :
        SubSeq(prepare, i + 1, i + Len(pieces)) = pieces

\* the value is an object whose operator is an arithmetic update operator
ArithmeticUpdate(value) ==
    /\ value.t = "object" /\ Len(value.ops) > 0
    /\ value.ops[1].key \in {"increment", "decrement", "multiply", "divide"}

\* the assignment compileAssignment writes for an arithmetic operator:
\* field = field <sign> ?
SelfReference(key, value) ==
    <<Id(key), Kw("="), Id(key),
      Kw(CASE value.ops[1].key = "increment" -> "+"
           [] value.ops[1].key = "decrement" -> "-"
           [] value.ops[1].key = "multiply" -> "*"
           [] value.ops[1].key = "divide" -> "/"),
      Q(value.ops[1].value)>>

\* C31: an updateData entry of upsert that is an arithmetic update-operator
\* object, for a field that is no unique key, is compiled into the ON
\* DUPLICATE KEY UPDATE clause as field = field <sign> ?, and the operand
\* is its parameter.
C31_UpsertAppliesUpdateOperator ==
    (Compiled /\ compiled.builder = "upsert" /\ compiled.params.hasUpdateData) =>
        \A i \in 1..Len(compiled.params.updateData) :
            (/\ ArithmeticUpdate(compiled.params.updateData[i].value)
             /\ ~Includes(compiled.params.uniqueKeys, compiled.params.updateData[i].key)) =>
                /\ Contains(compiled.statement.prepare,
                            SelfReference(compiled.params.updateData[i].key,
                                          compiled.params.updateData[i].value))
                /\ \E j \in 1..Len(compiled.statement.holders) :
                       compiled.statement.holders[j]
                           = compiled.params.updateData[i].value.ops[1].value

\* agent a invokes a command through the managed client in this step, on a
\* reachable cache: the command returns without any connectivity failure
InvokedReachable(a) ==
    /\ call[a].st = "idle" /\ call'[a].st = "ret"
    /\ up[call'[a].c]

\* C32: a command invoked through the managed client while the cache is
\* reachable is sent exactly once: the entry and the reply are those of one
\* execution of the command on the entry as it was, so a SET-if-absent of
\* the lock on an absent key replies OK.
C32_CommandSentOnce ==
    [][\A a \in Agents :
         InvokedReachable(a) =>
             /\ cache'[call'[a].c][call'[a].k]
                    = Exec(call'[a].op, cache[call'[a].c][call'[a].k], call'[a].v).e
             /\ call'[a].res
                    = Exec(call'[a].op, cache[call'[a].c][call'[a].k], call'[a].v).res
             /\ (call'[a].op = "set" /\ cache[call'[a].c][call'[a].k].val = NoVal)
                    => call'[a].res = "OK"]_vars

\* agent a makes attempt 2 or 3 of its command in this step
Retries(a) ==
    /\ call[a].st = "retry"
    /\ call'[a].st # "retry" \/ call'[a].attempt # call[a].attempt

\* C33: when an attempt of a command is made after the connection was
\* rebuilt (in this step or, by another command, since the command's
\* previous attempt) and the cache is reachable, the command is executed on
\* the new connection: it returns the reply of its execution on the entry.
\* No command makes more than MAX_RETRIES attempts.
C33_RetryUsesNewConnection ==
    /\ [][\A a \in Agents :
            (/\ Retries(a)
             /\ up[call[a].c]
             /\ rclient'[agentProc(a)][call[a].c] = NewClient) =>
                /\ call'[a].st = "ret"
                /\ call'[a].res = Exec(call[a].op, cache[call[a].c][call[a].k], call[a].v).res
                /\ cache'[call[a].c][call[a].k]
                       = Exec(call[a].op, cache[call[a].c][call[a].k], call[a].v).e]_vars
    /\ [](\A a \in Agents : call[a].attempt <= MAX_RETRIES)

\* C34: when a transaction(callback) call has settled, by returning or by
\* throwing, the connection it checked out is no longer pinned on the
\* driver, whichever of its steps failed.
C34_SettledTransactionHoldsNoPin ==
    \A q \in DCallers :
        (qloc[q].kind = "transaction" /\ qpc[q] = "done") => dstate.connection # q

\* caller q hands a statement of query() or execute() to its executor in
\* this step
StatementIssued(q) ==
    /\ qloc'[q].kind \in {"query", "execute"}
    /\ qloc'[q].calls = (IF qloc[q].kind = qloc'[q].kind THEN qloc[q].calls ELSE 0) + 1

\* C35: while a caller's transaction has a connection pinned, a statement
\* another caller issues is not executed on that connection.
C35_OutsiderNotOnPinnedConnection ==
    [][\A q \in DCallers :
         (StatementIssued(q) /\ Pinned /\ dstate.connection # q) =>
             qloc'[q].executor # "conn"]_vars

\* C36: for every ttlMs and renewIntervalRatio safeRun accepts, the interval
\* of the renewal timer is strictly smaller than the TTL of the lease.
C36_RenewIntervalBelowTtl == renewInterval < ttlOut

\* the renewal timer of p's lease is cleared in this step, the lease being
\* held: the cache key carries its value
RenewalStopped(p) ==
    /\ rec[p].timer /\ ~rec'[p].timer
    /\ cache[opt[p].cache][opt[p].key].val = generateLockValue(p)

\* the cleanup of p's own safeRun begins in this step
OwnRelease(p) == pc[p] = "task" /\ pc'[p] \in {"releasing", "releasingErr"}

\* the renewal callback of p's lease ends in this step with the failure
\* that reaches the threshold
OwnThreshold(p) ==
    /\ call[TimerAgent(p)].st \in {"ret", "thrown"}
    /\ call'[TimerAgent(p)] = NoCall
    /\ rec[p].failures + 1 >= MAX_RENEW_FAILURES

\* the shutdown sweep of p's process takes this step
ShutdownStep(p) == dpc[procOf(p)] # "done" /\ call'[DestroyAgent(procOf(p))] # call[DestroyAgent(procOf(p))]

\* C37: the renewal timer of a held lease is cleared only by the release of its
\* own safeRun, by its own renewal reaching the failure threshold, or by
\* the shutdown sweep; in particular not by the acquisition of another
\* safeRun of the same process.
C37_RenewalStoppedOnlyByOwner ==
    [][\A p \in Callers :
         RenewalStopped(p) => (OwnRelease(p) \/ OwnThreshold(p) \/ ShutdownStep(p))]_vars

\* q holds, in the process of p, the lease of the lock p's safeRun took
\* before: the cache key carries q's value and q's task is running
Reacquired(p, q) ==
    /\ p # q /\ procOf(p) = procOf(q) /\ SameLock(p, q)
    /\ pc[q] = "task"
    /\ cache[opt[q].cache][opt[q].key].val = generateLockValue(q)

\* p's safeRun takes a step of its cleanup: stop-renew and the release
\* command, or a later attempt of that command, or its end
CleanupStep(p) ==
    \/ pc[p] = "task" /\ pc'[p] \in {"releasing", "releasingErr"}
    \/ /\ pc[p] \in {"releasing", "releasingErr"}
       /\ call'[CallerAgent(p)] # call[CallerAgent(p)] \/ pc'[p] = "done"

\* C38: when the lock of an earlier safeRun has been re-acquired by a later
\* safeRun of the same process, no step of the earlier one's cleanup
\* changes the later one's renewal record or its timer, removes that
\* record from the renewal map, or changes the cache key.
C38_LateCleanupLeavesSuccessor ==
    [][\A p, q \in Callers :
         (Reacquired(p, q) /\ CleanupStep(p)) =>
             /\ rec'[q] = rec[q]
             /\ MapGet(renewMap[procOf(q)], opt[q].key) = q
                    => MapGet(renewMap'[procOf(q)], opt[q].key) = q
             /\ cache'[opt[q].cache][opt[q].key] = cache[opt[q].cache][opt[q].key]]_vars

\* C38 witness: p's release has been executed and found another value,
\* while q runs its task with the lease, its record and its timer in place
C38_Witness ==
    \E p, q \in Callers :
        /\ Reacquired(p, q)
        /\ pc[p] \in {"releasing", "releasingErr"}
        /\ call[CallerAgent(p)].st = "ret" /\ call[CallerAgent(p)].res = "0"
        /\ opt[q].autoRenew /\ rec[q].timer
        /\ MapGet(renewMap[procOf(q)], opt[q].key) = q

\* p holds a lease: its task runs and the cache key carries its value
HoldsLease(p) ==
    pc[p] = "task" /\ cache[opt[p].cache][opt[p].key].val = generateLockValue(p)

\* C39: when the shutdown sweep of a process begins, every lease a safeRun
\* of the process holds is tracked in the renewal map, and when the sweep
\* has ended none of its safeRun calls still holds a lease.
C39_ShutdownTracksEveryLease ==
    /\ [][\A proc \in Procs :
            (dpc[proc] = "idle" /\ dpc'[proc] # "idle") =>
                \A p \in Callers :
                    (procOf(p) = proc /\ HoldsLease(p)) =>
                        MapGet(renewMap[proc], opt[p].key) = p]_vars
    /\ [][\A proc \in Procs :
            (dpc[proc] # "done" /\ dpc'[proc] = "done") =>
                \A p \in Callers : procOf(p) = proc => ~HoldsLease(p)']_vars

\* C40: a caller whose mutating call on the shared Table has returned, and
\* who has not yet taken another step, reads from getLastResult() the
\* result of its own call: its type and its affected-row count.
C40_CallerReadsOwnResult ==
    \A q \in DCallers :
        (tpc[q] = "done" /\ tloc[q].kind \in MutatingKinds /\ tres[q].st = "ok"
             /\ tloc[q].executed) =>
            /\ lastOperationResult.type
                   = (IF tloc[q].kind \in {"add", "adds"} THEN "insert"
                      ELSE IF tloc[q].kind = "remove" THEN "delete" ELSE tloc[q].kind)
            /\ lastOperationResult.affectedRows = tloc[q].affectedRows
====
